---- MODULE Spec2Model ----
(***************************************************************************)
(* A model of the rollout evaluation harness of HN-LoRA:                   *)
(*   - the LIBERO evaluators (src/octo/domains/LIBERO/evaluate.py, the     *)
(*     vectorized one, and src/domains/LIBERO/evaluate.py, the             *)
(*     single-environment one): the result file, the skip-if-present gate  *)
(*     and the per-task record/rewrite cycle          (specification Spec) *)
(*   - the vectorized rollout loop over env_num slots                      *)
(*                                             (specification SpecRollout) *)
(*   - the SimplerEnv episode loop of src/scripts/evaluate.py              *)
(*                                             (specification SpecSimpler) *)
(***************************************************************************)
EXTENDS Integers, Sequences, FiniteSets, TLC

(***************************************************************************)
(* Bounds of the model.                                                    *)
(***************************************************************************)
\* number of tasks in the selected split
NumTasks == 2
\* number of evaluate() processes started one after the other on one file
MaxRuns == 2
\* largest number of slots of the environment pool (env_num is a parameter)
MaxEnvNum == 4
\* the environment may report done at the steps 1..EarlySteps, at step
\* ScenarioStep and at the last step of the budget, and at no other step
EarlySteps == 2
ScenarioStep == 37
\* SimplerEnv: largest number of subtasks of a task, and the number of steps
\* after which the environment reports truncated
MaxSubtasks == 2
EpisodeLimit == 4
\* SimplerEnv: number of tasks in the task list and largest total_runs
SimplerNumTasks == 2
MaxTotalRuns == 2

(***************************************************************************)
(* Program constants.                                                      *)
(***************************************************************************)
\* src/octo/domains/LIBERO/evaluate.py:162 and the range(600) of
\* src/domains/LIBERO/evaluate.py:105
max_step == 600
\* src/domains/LIBERO/evaluate.py:96
total_runs == 1

VARIABLES
    \* ---- the LIBERO evaluators (Spec) ----
    mode,                   \* "vec": octo/domains/LIBERO, "single": domains/LIBERO
    env_num,                \* the env_num parameter (number of slots)
    file,                   \* the result file f'{eval_path}/{save_file_name}.json'
    videoDirs,              \* the task names whose video directory exists
    all_tasks_success_rate, \* the in-memory mapping, in insertion order
    idx,                    \* position of the for loop in tasks
    pc,                     \* position of the evaluate() process
    envOpen,                \* number of environments (pools) open in the process
    success_rate,           \* the value computed for the current task
    written,                \* entries json.dump has written since open(..., 'w')
    err,                    \* the exception that ended the run, "none" otherwise
    \* history of the runs (not program state)
    runs,                   \* evaluate() processes started so far
    prevDone,               \* the previous run on this file ran to completion
    fileAtStart,            \* the file as this run found it when it started
    loaded,                 \* the mapping as loaded at the start of this run
    completed,              \* the entries recorded and written by this run
    persisted,              \* every entry a complete result file ever held
    recorded,               \* per task, how often its evaluation was recorded
    evaluated,              \* per task, how often its rollout was executed
    kills,                  \* processes killed so far
    rollouts,               \* rollouts executed by this run
    modelResets,            \* model.reset calls of this run
    envCreated              \* environments (pools) created by this run

ledgerVars == <<mode, env_num, file, videoDirs, all_tasks_success_rate, idx, pc,
                envOpen, success_rate, written, err, runs, prevDone, fileAtStart,
                loaded, completed, persisted, recorded, evaluated, kills, rollouts,
                modelResets, envCreated>>

VARIABLES
    \* ---- the vectorized rollout of one task (SpecRollout) ----
    rpc,                    \* position in the rollout
    step,                   \* the loop variable of `for step in range(max_step)`
    finished_tasks,         \* per slot: the environment reported done
    episode_length,         \* per slot
    dones,                  \* the done flags of the last env.step
    frames,                 \* len(images_with_attention_weights)
    history,                \* len(images_history)
    policyCalls,            \* model.step calls of the rollout
    envSteps,               \* env.step calls of the rollout loop
    firstDone,              \* per slot: 1-based number of the first step reported
                            \* done, 0 when none yet (history, not program state)
    policyBatch,            \* the slots whose images the last model.step was given
    stepBatch               \* the slots the last env.step of the loop stepped

rolloutVars == <<rpc, step, finished_tasks, episode_length, dones, frames, history,
                 policyCalls, envSteps, firstDone, policyBatch, stepBatch>>

VARIABLES
    \* ---- the SimplerEnv episode loop (SpecSimpler) ----
    spc,                    \* position in the episode loop
    instruction,            \* the instruction the driver holds
    is_final_subtask,       \* the flag the driver read last
    predicted_terminated,
    success,
    truncated,
    timestep,
    nImages,                \* len(images)
    numSubtasks,            \* environment: number of subtasks of the task
    envSubtask,             \* environment: the current subtask, 1..numSubtasks
    envElapsed,             \* environment: steps since reset
    policyInstruction,      \* the instruction given to the last model.step
    advanceCalls,           \* env.advance_to_next_subtask calls of the episode
    simplerEnvSteps,        \* env.step calls of the episode
    suppressed              \* the gate cleared a prediction in this iteration

simplerVars == <<spc, instruction, is_final_subtask, predicted_terminated, success,
                 truncated, timestep, nImages, numSubtasks, envSubtask, envElapsed,
                 policyInstruction, advanceCalls, simplerEnvSteps, suppressed>>

VARIABLES
    \* ---- evaluate() of src/scripts/evaluate.py around the episode loop ----
    model_name,             \* the model_name argument
    previous_policy_setup,
    simplerTask,            \* position of `for task_name in tasks`
    run,                    \* the loop variable of `for run in range(total_runs)`
    simpler_total_runs,     \* the total_runs argument
    success_count,
    simplerResults,         \* all_tasks_success_rate of this evaluate()
    simplerFile,            \* eval_success_rate_{timestamp}.json
    simplerEnvOpen,         \* environments open
    simplerEnvsMade,        \* simpler_env.make calls
    simplerVideos,          \* videos written
    modelLoads,             \* load_model calls that returned a model
    simplerErr,             \* the exception that ended evaluate(), or "none"
    writeFailed,            \* the tasks whose write of the result file failed
    lastWriteOk             \* the last write of the result file succeeded

simplerEvalVars == <<model_name, previous_policy_setup, simplerTask, run,
                     simpler_total_runs, success_count, simplerResults, simplerFile,
                     simplerEnvOpen, simplerEnvsMade, simplerVideos, modelLoads,
                     simplerErr, writeFailed, lastWriteOk>>

VARIABLES
    \* ---- the episode of src/domains/LIBERO/evaluate.py (lines 94-124) ----
    gpc,                    \* position in the episode code, "none" outside it
    single_run,             \* the loop variable of `for run in range(total_runs)`
    single_t,               \* the loop variable of `for t in range(600)`
    single_done,            \* done of the last env.step
    single_reward,          \* reward of the last env.step
    single_images,          \* len(images)
    single_success,         \* success of the episode: "unset", TRUE or FALSE
    single_success_count,
    episode_results,
    singlePolicyCalls,      \* model.step calls of the episode
    singleEnvSteps,         \* env.step calls of the episode
    singleDoneAt,           \* 1-based number of the first step reported done, or 0
    singleVideos            \* videos written: <<run + 1, result, frames>>

singleVars == <<gpc, single_run, single_t, single_done, single_reward, single_images,
                single_success, single_success_count, episode_results,
                singlePolicyCalls, singleEnvSteps, singleDoneAt, singleVideos>>

VARIABLES
    \* ---- the artifacts of a vectorized rollout (lines 186-192) ----
    save_video,             \* the save_video argument
    videos,                 \* the videos written, in order: slot, result, frames
    recordWrites            \* dumps of record.pkl

artifactVars == <<save_video, videos, recordWrites>>

VARIABLES
    \* ---- two evaluate() processes of octo/domains/LIBERO on one result file ----
    cFile,                  \* the result file they share
    cpc,                    \* per process: position in evaluate()
    cMap,                   \* per process: all_tasks_success_rate
    cIdx,                   \* per process: position in the task loop
    cLoaded,                \* per process: the mapping as loaded at its start
    cOwn,                   \* per process: the entries it recorded, in order
    cErr                    \* per process: the exception that ended it, or "none"

concVars == <<cFile, cpc, cMap, cIdx, cLoaded, cOwn, cErr>>

VARIABLES
    \* ---- __main__ of octo/domains/LIBERO/evaluate.py (lines 214-217) ----
    mainpc,                 \* position in __main__ and in the evaluate() it calls
    seedsArg,               \* args.seeds, a string (sequence of characters)
    split,                  \* args.split
    seeds,                  \* the list `seeds`
    seedPos,                \* position of `for seed in seeds`
    mainTasks,              \* the local `tasks` of evaluate() after line 67
    mainIdx,                \* position of `for task_id in tasks`
    mainMap,                \* all_tasks_success_rate of the running evaluate()
    seedFiles,              \* per seed: the result file of its eval_path
    calls,                  \* the seeds evaluate() was called with, in order
    returned,               \* number of evaluate() calls that returned
    mainErr                 \* the exception that ended __main__, or "none"

mainVars == <<mainpc, seedsArg, split, seeds, seedPos, mainTasks, mainIdx, mainMap,
              seedFiles, calls, returned, mainErr>>

VARIABLES
    \* ---- two LIBERO evaluations, one after the other (lines 41-53, 69-78) ----
    ppc,                    \* which evaluation runs, and where it is
    pMode,                  \* "vec": octo/domains/LIBERO, "single": domains/LIBERO
    argsA,                  \* model_path, checkpoint_step, seed, split of the first
    argsB,                  \* ... and of the second evaluation
    pathA,                  \* the result file of the first evaluation
    pathB,                  \* the result file of the second evaluation
    stored,                 \* the mapping the first evaluation left in its file
    mapB,                   \* all_tasks_success_rate of the second evaluation
    idxB,                   \* position of its task loop
    skippedB,               \* the tasks the second evaluation skipped
    evaluatedB              \* the tasks the second evaluation evaluated

pathVars == <<ppc, pMode, argsA, argsB, pathA, pathB, stored, mapB, idxB, skippedB,
              evaluatedB>>

VARIABLES
    \* ---- one command line: python .../evaluate.py --model ... ----
    clipc,                  \* position in __main__ and in the evaluate() it calls
    cliScript,              \* which evaluate.py is run
    cliModel,               \* the --model argument
    cliPath,                \* the --model_path argument
    cliSeeds,               \* number of evaluate() calls __main__ makes
    cliCall,                \* evaluate() calls made so far
    cliErr,                 \* the exception that ended the process, or "none"
    cliModelLoads,          \* models loaded by load_model
    cliClass,               \* the OctoModel class of the last model loaded
    cliEnvsMade,            \* environments (pools) created
    cliTask,                \* position of the task loop of the running evaluate()
    cliPrevSetup            \* previous_policy_setup of scripts/evaluate.py

cliVars == <<clipc, cliScript, cliModel, cliPath, cliSeeds, cliCall, cliErr,
             cliModelLoads, cliClass, cliEnvsMade, cliTask, cliPrevSetup>>

vars == <<ledgerVars, rolloutVars, simplerVars, simplerEvalVars, singleVars,
          artifactVars, concVars, mainVars, pathVars, cliVars>>

(***************************************************************************)
(* The tasks of the split: tasks is the list the for loop iterates, task   *)
(* names are 1..NumTasks.                                                  *)
(***************************************************************************)
TaskNames == 1..NumTasks
tasks == [i \in 1..NumTasks |-> i]

Min(a, b) == IF a <= b THEN a ELSE b

RECURSIVE Gcd(_, _)
Gcd(a, b) == IF b = 0 THEN a ELSE Gcd(b, a % b)

\* the float k / n, kept exact as a fraction in lowest terms
Div(k, n) == LET g == Gcd(k, n) IN <<k \div g, n \div g>>

(***************************************************************************)
(* The mapping all_tasks_success_rate is a Python dict: a sequence of      *)
(* <<key, value>> in insertion order with unique keys.                     *)
(***************************************************************************)
Entries(d) == {d[i] : i \in 1..Len(d)}
HasKey(d, k) == \E i \in 1..Len(d) : d[i][1] = k

\* d[k] = v
SetItem(d, k, v) ==
    IF HasKey(d, k)
    THEN [i \in 1..Len(d) |-> IF d[i][1] = k THEN <<k, v>> ELSE d[i]]
    ELSE Append(d, <<k, v>>)

(***************************************************************************)
(* The result file: absent, or a text. The text json.dump writes is the    *)
(* entries of the mapping in order; it parses only once the closing brace  *)
(* is there (kind "json"). A text cut short (kind "partial") holds a       *)
(* prefix of the entries and does not parse.                               *)
(***************************************************************************)
Absent == [kind |-> "absent", items |-> <<>>]
JsonText(d) == [kind |-> "json", items |-> d]
PartialText(d, n) == [kind |-> "partial", items |-> SubSeq(d, 1, n)]

\* json.load(f): the mapping, or JSONDecodeError
json_load(f) ==
    IF f.kind = "json" THEN [ok |-> TRUE, value |-> f.items]
    ELSE [ok |-> FALSE, value |-> <<>>]

\* the entries whose text the file holds
FileEntries(f) == Entries(f.items)

(***************************************************************************)
(* The values an entry of the result file can have.                        *)
(***************************************************************************)
\* octo/domains/LIBERO: success_rate = sum(finished_tasks) / env_num
VecValue(k, n) == [shape |-> "float", rate |-> Div(k, n)]
\* domains/LIBERO: [success_count / total_runs, episode_results]
SingleValue(results) ==
    [shape |-> "pair",
     rate |-> Div(Cardinality({i \in 1..Len(results) : results[i]}), total_runs),
     outcomes |-> results]

ValuesOf(m, n) ==
    IF m = "vec" THEN {VecValue(k, n) : k \in 0..n}
    ELSE {SingleValue(<<b>>) : b \in BOOLEAN}

\* the result files an earlier evaluation with the same arguments can have left:
\* entries for a prefix of the tasks, in task order
RECURSIVE PriorMappings(_, _, _)
PriorMappings(m, n, len) ==
    IF len = 0 THEN {<<>>}
    ELSE {Append(d, <<tasks[len], v>>) : d \in PriorMappings(m, n, len - 1),
                                          v \in ValuesOf(m, n)}

InitFiles(m, n) ==
    {Absent}
    \cup {JsonText(d) : d \in UNION {PriorMappings(m, n, l) : l \in 1..NumTasks}}
    \cup {PartialText(d, 0) : d \in {<<>>}}

idleRollout ==
    /\ rpc = "none" /\ step = 0 /\ finished_tasks = <<>> /\ episode_length = <<>>
    /\ dones = <<>> /\ frames = 0 /\ history = 0 /\ policyCalls = 0 /\ envSteps = 0
    /\ firstDone = <<>> /\ policyBatch = {} /\ stepBatch = {}

idleSimpler ==
    /\ spc = "none" /\ instruction = 0 /\ is_final_subtask = FALSE
    /\ predicted_terminated = FALSE /\ success = FALSE /\ truncated = FALSE
    /\ timestep = 0 /\ nImages = 0 /\ numSubtasks = 1 /\ envSubtask = 1
    /\ envElapsed = 0 /\ policyInstruction = 0 /\ advanceCalls = 0
    /\ simplerEnvSteps = 0 /\ suppressed = FALSE

idleSimplerEval ==
    /\ model_name = "octo-custom" /\ previous_policy_setup = "" /\ simplerTask = 1
    /\ run = 0 /\ simpler_total_runs = 1 /\ success_count = 0
    /\ simplerResults = <<>> /\ simplerFile = Absent /\ simplerEnvOpen = 0
    /\ simplerEnvsMade = 0 /\ simplerVideos = 0 /\ modelLoads = 0
    /\ simplerErr = "none" /\ writeFailed = {} /\ lastWriteOk = FALSE

idleSingle ==
    /\ gpc = "none" /\ single_run = 0 /\ single_t = 0 /\ single_done = FALSE
    /\ single_reward = 0 /\ single_images = 0 /\ single_success = "unset"
    /\ single_success_count = 0 /\ episode_results = <<>>
    /\ singlePolicyCalls = 0 /\ singleEnvSteps = 0 /\ singleDoneAt = 0
    /\ singleVideos = <<>>

idleArtifacts ==
    /\ save_video = FALSE /\ videos = <<>> /\ recordWrites = 0

idleConc ==
    /\ cFile = Absent /\ cpc = <<>> /\ cMap = <<>> /\ cIdx = <<>>
    /\ cLoaded = <<>> /\ cOwn = <<>> /\ cErr = <<>>

idleMain ==
    /\ mainpc = "none" /\ seedsArg = <<>> /\ split = "train" /\ seeds = <<>>
    /\ seedPos = 0 /\ mainTasks = <<>> /\ mainIdx = 0 /\ mainMap = <<>>
    /\ seedFiles = <<>> /\ calls = <<>> /\ returned = 0 /\ mainErr = "none"

idlePaths ==
    /\ ppc = "none" /\ pMode = "vec" /\ argsA = <<>> /\ argsB = <<>>
    /\ pathA = <<>> /\ pathB = <<>> /\ stored = <<>> /\ mapB = <<>> /\ idxB = 0
    /\ skippedB = {} /\ evaluatedB = {}

idleCli ==
    /\ clipc = "none" /\ cliScript = "vec" /\ cliModel = "octo-custom"
    /\ cliPath = "" /\ cliSeeds = 0 /\ cliCall = 0 /\ cliErr = "none"
    /\ cliModelLoads = 0 /\ cliClass = "none" /\ cliEnvsMade = 0
    /\ cliTask = 0 /\ cliPrevSetup = ""

notLedger == <<rolloutVars, simplerVars, simplerEvalVars, singleVars,
               artifactVars, concVars, mainVars, pathVars, cliVars>>

(***************************************************************************)
(* Spec: evaluate() of the LIBERO evaluators, run one process after the    *)
(* other on one result file (same model path, checkpoint step, seed and    *)
(* split). A process can be killed at any point.                           *)
(***************************************************************************)
Init ==
    /\ mode \in {"vec", "single"}
    /\ env_num \in (IF mode = "vec" THEN 1..MaxEnvNum ELSE {1})
    /\ file \in InitFiles(mode, env_num)
    /\ videoDirs = {}
    /\ all_tasks_success_rate = <<>>
    /\ idx = 1
    /\ pc = "idle"
    /\ envOpen = 0
    /\ success_rate = VecValue(0, 1)
    /\ written = 0
    /\ err = "none"
    /\ runs = 0
    /\ prevDone = FALSE
    /\ fileAtStart = file
    /\ loaded = <<>>
    /\ completed = <<>>
    /\ persisted = IF file.kind = "json" THEN FileEntries(file) ELSE {}
    /\ recorded = [t \in TaskNames |-> 0]
    /\ evaluated = [t \in TaskNames |-> 0]
    /\ kills = 0
    /\ rollouts = 0
    /\ modelResets = 0
    /\ envCreated = 0
    /\ idleRollout
    /\ idleSimpler
    /\ idleSimplerEval
    /\ idleConc
    /\ idleMain
    /\ idlePaths
    /\ idleCli
    /\ idleArtifacts
    /\ idleSingle

idleLedger ==
    /\ mode = "vec"
    /\ file = Absent
    /\ videoDirs = {}
    /\ all_tasks_success_rate = <<>>
    /\ idx = 1
    /\ pc = "idle"
    /\ envOpen = 0
    /\ written = 0
    /\ err = "none"
    /\ runs = 0
    /\ prevDone = FALSE
    /\ fileAtStart = Absent
    /\ loaded = <<>>
    /\ completed = <<>>
    /\ persisted = {}
    /\ recorded = [t \in TaskNames |-> 0]
    /\ evaluated = [t \in TaskNames |-> 0]
    /\ kills = 0
    /\ rollouts = 0
    /\ modelResets = 0
    /\ envCreated = 0

\* the ledger variables the rollout leaves alone (all but env_num, success_rate)
ledgerRest == <<mode, file, videoDirs, all_tasks_success_rate, idx, pc, envOpen,
                written, err, runs, prevDone, fileAtStart, loaded, completed,
                persisted, recorded, evaluated, kills, rollouts, modelResets,
                envCreated>>

outsideRollout == <<ledgerRest, simplerVars, simplerEvalVars, singleVars,
                    artifactVars, concVars, mainVars, pathVars, cliVars>>

\* python .../evaluate.py: a new process calls evaluate(); lines 41-46
StartRun ==
    /\ pc \in {"idle", "done", "error", "killed"}
    /\ runs < MaxRuns
    /\ runs' = runs + 1
    /\ pc' = "load"
    /\ prevDone' = (pc = "done")
    /\ fileAtStart' = file
    /\ all_tasks_success_rate' = <<>>
    /\ idx' = 1
    /\ envOpen' = 0
    /\ written' = 0
    /\ err' = "none"
    /\ loaded' = <<>>
    /\ completed' = <<>>
    /\ rollouts' = 0
    /\ modelResets' = 0
    /\ envCreated' = 0
    /\ UNCHANGED <<mode, env_num, file, videoDirs, success_rate, persisted, recorded,
                   evaluated, kills>>
    /\ UNCHANGED notLedger

\* (mutant) the file is never read: every run starts from an empty mapping
LoadResult_Fresh(f) == [ok |-> TRUE, value |-> <<>>]

\* the mapping evaluate() starts from
LoadResult(f) ==
    IF f.kind = "absent" THEN [ok |-> TRUE, value |-> <<>>] ELSE json_load(f)

\* lines 48-53 (45-50): load the result file when it exists
Load ==
    /\ pc = "load"
    /\ LET r == LoadResult(file) IN
        IF r.ok
        THEN /\ all_tasks_success_rate' = r.value
             /\ loaded' = r.value
             /\ pc' = "loop"
             /\ err' = err
        ELSE /\ pc' = "error"
             /\ err' = "JSONDecodeError"
             /\ UNCHANGED <<all_tasks_success_rate, loaded>>
    /\ UNCHANGED <<mode, env_num, file, videoDirs, idx, envOpen, success_rate,
                   written, runs, prevDone, fileAtStart, completed, persisted,
                   recorded, evaluated, kills, rollouts, modelResets, envCreated>>
    /\ UNCHANGED notLedger

\* (mutant) the gate never skips
SkipTask_Never(d, task_name) == FALSE

\* `if task_name in all_tasks_success_rate: continue`
SkipTask(d, task_name) == HasKey(d, task_name)

\* lines 69-78 (66-75): the head of the for loop and the skip-if-present gate
LoopHead ==
    /\ pc = "loop"
    /\ IF idx > Len(tasks)
       THEN pc' = "done" /\ idx' = idx
       ELSE IF SkipTask(all_tasks_success_rate, tasks[idx])
            THEN pc' = "loop" /\ idx' = idx + 1
            ELSE pc' = "mkdir" /\ idx' = idx
    /\ UNCHANGED <<mode, env_num, file, videoDirs, all_tasks_success_rate, envOpen,
                   success_rate, written, err, runs, prevDone, fileAtStart, loaded,
                   completed, persisted, recorded, evaluated, kills, rollouts,
                   modelResets, envCreated>>
    /\ UNCHANGED notLedger

\* lines 80-81 (77-78): os.makedirs(video_path, exist_ok=True)
MakeVideoDir ==
    /\ pc = "mkdir"
    /\ videoDirs' = videoDirs \cup {tasks[idx]}
    /\ pc' = IF mode = "vec" THEN "reset" ELSE "mkenv"
    /\ UNCHANGED <<mode, env_num, file, all_tasks_success_rate, idx, envOpen,
                   success_rate, written, err, runs, prevDone, fileAtStart, loaded,
                   completed, persisted, recorded, evaluated, kills, rollouts,
                   modelResets, envCreated>>
    /\ UNCHANGED notLedger

\* model.reset(task_description): line 135 of the vectorized evaluator (before the
\* pool is created), line 91 of the single one (after the environment is created)
ModelReset ==
    /\ pc = "reset"
    /\ modelResets' = modelResets + 1
    /\ pc' = IF mode = "vec" THEN "mkenv" ELSE "rollout"
    /\ UNCHANGED <<mode, env_num, file, videoDirs, all_tasks_success_rate, idx,
                   envOpen, success_rate, written, err, runs, prevDone, fileAtStart,
                   loaded, completed, persisted, recorded, evaluated, kills, rollouts,
                   envCreated>>
    /\ UNCHANGED notLedger

\* lines 143-153 (86-89): create, seed and reset the environment (pool)
MakeEnv ==
    /\ pc = "mkenv"
    /\ envOpen' = envOpen + 1
    /\ envCreated' = envCreated + 1
    /\ pc' = IF mode = "vec" THEN "rollout" ELSE "reset"
    /\ UNCHANGED <<mode, env_num, file, videoDirs, all_tasks_success_rate, idx,
                   success_rate, written, err, runs, prevDone, fileAtStart, loaded,
                   completed, persisted, recorded, evaluated, kills, rollouts,
                   modelResets>>
    /\ UNCHANGED notLedger

\* (mutant) both evaluators record the bare rate
TaskValue_Float(m, n, nFinished, succ) == VecValue(nFinished, n)

\* the value of the task after its rollout: line 183 of the vectorized evaluator
\* for the slots that finished, lines 117-126 of the single one for the run's
\* success
TaskValue(m, n, nFinished, succ) ==
    IF m = "vec" THEN VecValue(nFinished, n) ELSE SingleValue(<<succ>>)

\* lines 155-183 (94-121): the rollout of the task; what the environment does
\* decides how many slots finish (whether the run succeeds)
Rollout ==
    /\ pc = "rollout"
    /\ \E nFinished \in 0..env_num, succ \in BOOLEAN :
          /\ mode = "vec" => succ = FALSE
          /\ mode = "single" => nFinished = 0
          /\ success_rate' = TaskValue(mode, env_num, nFinished, succ)
    /\ rollouts' = rollouts + 1
    /\ evaluated' = [evaluated EXCEPT ![tasks[idx]] = @ + 1]
    /\ pc' = "close"
    /\ UNCHANGED <<mode, env_num, file, videoDirs, all_tasks_success_rate, idx,
                   envOpen, written, err, runs, prevDone, fileAtStart, loaded,
                   completed, persisted, recorded, kills, modelResets, envCreated>>
    /\ UNCHANGED notLedger

\* (mutant) close() leaves the environment open
EnvsAfterClose_Leak(n) == n

\* env.close() ends the environment (the worker processes of the pool)
EnvsAfterClose(n) == n - 1

\* line 184 (125): env.close() ends the environment; or it raises (a worker
\* process of the pool is gone) and the exception leaves evaluate() after the
\* rollout of the task, before its entry is recorded
CloseEnv ==
    /\ pc = "close"
    /\ \/ /\ envOpen' = EnvsAfterClose(envOpen)
          /\ pc' = "record"
          /\ UNCHANGED err
       \/ /\ envOpen' = 0
          /\ pc' = "error"
          /\ err' = "EnvError"
    /\ UNCHANGED <<mode, env_num, file, videoDirs, all_tasks_success_rate, idx,
                   success_rate, written, runs, prevDone, fileAtStart, loaded,
                   completed, persisted, recorded, evaluated, kills, rollouts,
                   modelResets, envCreated>>
    /\ UNCHANGED notLedger

\* (mutant) the entry is not added to the mapping
RecordEntry_Drop(d, task_name, value) == d

\* (mutant) the mapping is replaced by one holding the new entry alone
RecordEntry_Replace(d, task_name, value) == <<<<task_name, value>>>>

\* all_tasks_success_rate[task_name] = success_rate
RecordEntry(d, task_name, value) == SetItem(d, task_name, value)

\* line 194 (126): the entry of the task is added to the mapping
Record ==
    /\ pc = "record"
    /\ all_tasks_success_rate' =
          RecordEntry(all_tasks_success_rate, tasks[idx], success_rate)
    /\ pc' = "open"
    /\ UNCHANGED <<mode, env_num, file, videoDirs, idx, envOpen, success_rate,
                   written, err, runs, prevDone, fileAtStart, loaded, completed,
                   persisted, recorded, evaluated, kills, rollouts, modelResets,
                   envCreated>>
    /\ UNCHANGED notLedger

\* what open(path, 'w') leaves of the file
OpenForWrite(f, d) == PartialText(d, 0)

\* line 196 (128): open(..., 'w') truncates the result file
OpenWrite ==
    /\ pc = "open"
    /\ file' = OpenForWrite(file, all_tasks_success_rate)
    /\ written' = 0
    /\ pc' = "dump"
    /\ UNCHANGED <<mode, env_num, videoDirs, all_tasks_success_rate, idx, envOpen,
                   success_rate, err, runs, prevDone, fileAtStart, loaded, completed,
                   persisted, recorded, evaluated, kills, rollouts, modelResets,
                   envCreated>>
    /\ UNCHANGED notLedger

\* line 197 (129): json.dump writes the mapping entry by entry
DumpChunk ==
    /\ pc = "dump"
    /\ written < Len(all_tasks_success_rate)
    /\ written' = written + 1
    /\ file' = PartialText(all_tasks_success_rate, written + 1)
    /\ UNCHANGED <<mode, env_num, videoDirs, all_tasks_success_rate, idx, pc, envOpen,
                   success_rate, err, runs, prevDone, fileAtStart, loaded, completed,
                   persisted, recorded, evaluated, kills, rollouts, modelResets,
                   envCreated>>
    /\ UNCHANGED notLedger

\* line 197 (129): json.dump ends and the with block closes the file; the for
\* loop goes on to the next task
DumpClose ==
    /\ pc = "dump"
    /\ written = Len(all_tasks_success_rate)
    /\ file' = JsonText(all_tasks_success_rate)
    /\ persisted' = persisted \cup Entries(all_tasks_success_rate)
    /\ completed' = Append(completed, <<tasks[idx], success_rate>>)
    /\ recorded' = [recorded EXCEPT ![tasks[idx]] = @ + 1]
    /\ idx' = idx + 1
    /\ pc' = "loop"
    /\ UNCHANGED <<mode, env_num, videoDirs, all_tasks_success_rate, envOpen,
                   success_rate, written, err, runs, prevDone, fileAtStart, loaded,
                   rollouts, modelResets, envCreated, evaluated, kills>>
    /\ UNCHANGED notLedger

\* lines 196-197 (128-129): open(..., 'w') raises and the file is as it was, or
\* json.dump (or the close of the file) raises and the file keeps the text
\* written so far; there is no try/except and the exception ends the run. (The
\* runs of this specification have save_video off: lines 186-192 / 122-124
\* write no video and no record file.)
WriteFailure ==
    /\ pc \in {"open", "dump"}
    /\ pc' = "error"
    /\ err' = "OSError"
    /\ UNCHANGED <<mode, env_num, file, videoDirs, all_tasks_success_rate, idx,
                   envOpen, success_rate, written, runs, prevDone, fileAtStart,
                   loaded, completed, persisted, recorded, evaluated, kills,
                   rollouts, modelResets, envCreated>>
    /\ UNCHANGED notLedger

Running == pc \notin {"idle", "done", "error", "killed"}

\* the process is killed (SIGKILL, power loss): whatever is on disk stays
Kill ==
    /\ Running
    /\ pc' = "killed"
    /\ envOpen' = 0
    /\ kills' = kills + 1
    /\ UNCHANGED <<mode, env_num, file, videoDirs, all_tasks_success_rate, idx,
                   success_rate, written, err, runs, prevDone, fileAtStart, loaded,
                   completed, persisted, recorded, evaluated, rollouts, modelResets, envCreated>>
    /\ UNCHANGED notLedger

\* (mutant) the failure is swallowed and the task goes on to its record
AfterEnvFailure_Swallow == "close"

\* evaluate() has no try/except: an exception raised inside it ends the run
AfterEnvFailure == "error"

\* lines 143-153 and 172 (86-89, 98-99, 109): the environment (pool) raises at its
\* creation, seed, reset, set_init_state or at a step (a worker process died);
\* the exception leaves evaluate() and the process ends. Before the rollout the
\* failure is that of the constructor (line 143 / 86: no environment was
\* created) or of a call on the environment just created (lines 144-153 /
\* 87-88: one was created, and is never closed by the code).
EnvFailure ==
    /\ pc \in {"mkenv", "rollout"}
    /\ pc' = AfterEnvFailure
    /\ err' = "EnvError"
    /\ envOpen' = IF AfterEnvFailure = "error" THEN 0 ELSE envOpen
    /\ IF pc = "mkenv"
       THEN envCreated' \in {envCreated, envCreated + 1}
       ELSE envCreated' = envCreated
    /\ UNCHANGED <<mode, env_num, file, videoDirs, all_tasks_success_rate, idx,
                   success_rate, written, runs, prevDone, fileAtStart, loaded,
                   completed, persisted, recorded, evaluated, kills, rollouts,
                   modelResets>>
    /\ UNCHANGED notLedger

Next ==
    \/ StartRun
    \/ Load
    \/ LoopHead
    \/ MakeVideoDir
    \/ ModelReset
    \/ MakeEnv
    \/ Rollout
    \/ CloseEnv
    \/ Record
    \/ OpenWrite
    \/ DumpChunk
    \/ DumpClose
    \/ Kill
    \/ EnvFailure
    \/ WriteFailure

Spec == Init /\ [][Next]_vars

(***************************************************************************)
(* Claims about the result file (checked under Spec).                      *)
(***************************************************************************)

\* C1: a run started after a run on the same result file completed executes no
\* rollout and leaves the file with the content the first run left.
C1_SecondRunIsNoOp ==
    prevDone => (file = fileAtStart /\ rollouts = 0)

\* a second run completed after a first run that evaluated and recorded every task
C1_Witness ==
    /\ prevDone /\ pc = "done" /\ runs = 2
    /\ \A t \in TaskNames : recorded[t] = 1
    /\ file.kind = "json" /\ Len(file.items) = NumTasks

AtSkippedTask ==
    /\ pc = "loop"
    /\ idx <= Len(tasks)
    /\ HasKey(all_tasks_success_rate, tasks[idx])

\* the step from the loop head at a task whose name is a key of the mapping: the
\* process goes straight to the next task (or is killed) and does no work
SkipStepDoesNoWork ==
    AtSkippedTask =>
        /\ file' = file
        /\ videoDirs' = videoDirs
        /\ envCreated' = envCreated
        /\ envOpen' = envOpen
        /\ modelResets' = modelResets
        /\ rollouts' = rollouts
        /\ all_tasks_success_rate' = all_tasks_success_rate
        /\ \/ pc' = "loop" /\ idx' = idx + 1
           \/ pc' = "killed"

C3_FileCurrentBeforeNextTask ==
    pc \in {"mkdir", "reset", "mkenv"} =>
        /\ file.kind \in {"absent", "json"}
        /\ file.items = loaded \o completed
        /\ all_tasks_success_rate = loaded \o completed
        /\ file.kind = "absent" => Len(completed) = 0

\* the environment of the second task is being created after the first task was
\* evaluated and written by this run
C3_Witness ==
    /\ pc = "mkenv" /\ idx = 2
    /\ Len(completed) = 1
    /\ file.kind = "json"

\* C4: a complete result file holds every entry any earlier complete result file
\* held, with the same value.
C4_EntriesPreserved ==
    file.kind = "json" => persisted \subseteq FileEntries(file)

\* a write completed by a run that had loaded an entry and recorded another
C4_Witness ==
    /\ file.kind = "json" /\ pc = "loop"
    /\ Len(loaded) >= 1 /\ Len(completed) >= 1
    /\ loaded[1] \in FileEntries(file)

\* C5 (as claimed): after a kill the file still holds the entry of every task
\* whose evaluation this run completed.
C5_KillLosesAtMostCurrentTask ==
    pc = "killed" => \A i \in 1..Len(completed) : completed[i] \in FileEntries(file)

\* C6 (as claimed): a run that finds the result file missing or malformed starts
\* from an empty mapping and raises no error.
C6_MalformedIsNoPriorResults ==
    (runs >= 1 /\ pc # "load" /\ fileAtStart.kind \in {"absent", "partial"}) =>
        (err # "JSONDecodeError" /\ loaded = <<>>)

(***************************************************************************)
(* SpecRollout: the vectorized rollout of one task, lines 155-184 of       *)
(* src/octo/domains/LIBERO/evaluate.py, step by step. Slots are 1..env_num.*)
(***************************************************************************)
Slots == 1..env_num

\* the 1-based steps at which the environments may report done
DoneSteps == (1..EarlySteps) \cup {ScenarioStep, max_step}

\* the done flags env.step can return at the iteration `s` (0-based)
DoneVectors(s) ==
    IF s + 1 \in DoneSteps THEN [Slots -> BOOLEAN] ELSE {[k \in Slots |-> FALSE]}

\* (mutant) the length of a slot is overwritten each time it reports done
FinishStep_NoMin(fin, len, d, s) ==
    [finished |-> [k \in DOMAIN fin |-> fin[k] \/ d[k]],
     length   |-> [k \in DOMAIN len |-> IF d[k] THEN s + 1 ELSE len[k]]]

\* (mutant) the length is the 0-based loop index
FinishStep_OffByOne(fin, len, d, s) ==
    [finished |-> [k \in DOMAIN fin |-> fin[k] \/ d[k]],
     length   |-> [k \in DOMAIN len |-> IF d[k] THEN Min(s, len[k]) ELSE len[k]]]

\* lines 174-177: for k in range(env_num): if dones[k]: finished_tasks[k] = True;
\* episode_length[k] = min(step + 1, episode_length[k])
FinishStep(fin, len, d, s) ==
    [finished |-> [k \in DOMAIN fin |-> fin[k] \/ d[k]],
     length   |-> [k \in DOMAIN len |-> IF d[k] THEN Min(s + 1, len[k]) ELSE len[k]]]

\* (mutant) any(finished_tasks)
AllFinished_Any(fin) == \E k \in DOMAIN fin : fin[k]

\* line 178: all(finished_tasks)
AllFinished(fin) == \A k \in DOMAIN fin : fin[k]

\* line 183: sum(finished_tasks) / env_num
SuccessRate(fin, n) == VecValue(Cardinality({k \in DOMAIN fin : fin[k]}), n)

\* (mutant) the slots that finished are left out of the batch
BatchSlots_Unfinished(n, fin) == {k \in 1..n : ~fin[k]}

\* lines 155 and 180: images is stacked from obs[i] for i in range(len(obs)), one
\* row per slot, whatever finished_tasks says; the actions model.step returns
\* for it, one row per image, are what env.step is given (lines 166-172)
BatchSlots(n, fin) == 1..n

\* (mutant) the lengths start at zero
InitialLength_Zero(n) == [k \in 1..n |-> 0]

\* line 163: episode_length = [max_step] * env_num
InitialLength(n) == [k \in 1..n |-> max_step]

InitRollout ==
    /\ idleLedger
    /\ env_num \in 1..MaxEnvNum
    /\ success_rate = VecValue(0, 1)
    /\ idleRollout
    /\ idleSimpler
    /\ idleSimplerEval
    /\ idleSingle
    /\ idleConc
    /\ idleMain
    /\ idlePaths
    /\ idleCli
    /\ save_video \in BOOLEAN /\ videos = <<>> /\ recordWrites = 0

\* lines 155-163: the first images, the empty buffers, finished_tasks and
\* episode_length
BeginRollout ==
    /\ rpc = "none"
    /\ rpc' = "policy"
    /\ step' = 0
    /\ finished_tasks' = [k \in Slots |-> FALSE]
    /\ episode_length' = InitialLength(env_num)
    /\ dones' = [k \in Slots |-> FALSE]
    /\ firstDone' = [k \in Slots |-> 0]
    /\ history' = 1
    /\ frames' = 0
    /\ policyCalls' = 0
    /\ envSteps' = 0
    /\ UNCHANGED <<policyBatch, stepBatch>>
    /\ UNCHANGED <<env_num, success_rate, outsideRollout>>

\* lines 166-171: one policy call on the images of all slots, the overlay frame
\* of the step is buffered
PolicyStep ==
    /\ rpc = "policy"
    /\ step < max_step
    /\ policyCalls' = policyCalls + 1
    /\ frames' = frames + 1
    /\ policyBatch' = BatchSlots(env_num, finished_tasks)
    /\ rpc' = "envstep"
    /\ UNCHANGED <<step, finished_tasks, episode_length, dones, history, envSteps,
                   firstDone, stepBatch>>
    /\ UNCHANGED <<env_num, success_rate, outsideRollout>>

\* lines 172-181: one batched env.step, the finished flags and lengths, the
\* early exit, the images of the next step
EnvStep ==
    /\ rpc = "envstep"
    /\ \E d \in DoneVectors(step) :
        LET r == FinishStep(finished_tasks, episode_length, d, step) IN
          /\ dones' = d
          /\ envSteps' = envSteps + 1
          /\ finished_tasks' = r.finished
          /\ episode_length' = r.length
          /\ firstDone' = [k \in Slots |->
                IF firstDone[k] = 0 /\ d[k] THEN step + 1 ELSE firstDone[k]]
          /\ IF AllFinished(r.finished)
             THEN /\ rpc' = "after"
                  /\ UNCHANGED <<step, history>>
             ELSE /\ history' = history + 1
                  /\ IF step + 1 < max_step
                     THEN rpc' = "policy" /\ step' = step + 1
                     ELSE rpc' = "after" /\ step' = step
    /\ stepBatch' = policyBatch
    /\ UNCHANGED <<frames, policyCalls, policyBatch>>
    /\ UNCHANGED <<env_num, success_rate, outsideRollout>>

\* lines 183-184: the success rate of the task, env.close()
EndRollout ==
    /\ rpc = "after"
    /\ success_rate' = SuccessRate(finished_tasks, env_num)
    /\ rpc' = "done"
    /\ UNCHANGED <<step, finished_tasks, episode_length, dones, frames, history,
                   policyCalls, envSteps, firstDone, policyBatch, stepBatch>>
    /\ UNCHANGED <<env_num, outsideRollout>>

\* (mutant) a video gets every buffered frame
Slice_All(len, n) == len

\* x[:n] of a list of len elements has the first min(n, len) of them
Slice(len, n) == Min(n, len)

\* line 188: 'success' if finished_tasks[i] else 'fail'
ResultName(fin) == IF fin THEN "success" ELSE "fail"

\* lines 186-192: with save_video, one video per slot (the slot i of the source
\* is the slot i + 1 here, the number in the file name) and record.pkl
WriteArtifacts ==
    /\ rpc = "done"
    /\ rpc' = "saved"
    /\ IF save_video
       THEN /\ videos' = [k \in Slots |->
                    [name   |-> k,
                     result |-> ResultName(finished_tasks[k]),
                     frames |-> Slice(frames, episode_length[k])]]
            /\ recordWrites' = recordWrites + 1
       ELSE UNCHANGED <<videos, recordWrites>>
    /\ UNCHANGED <<step, finished_tasks, episode_length, dones, frames, history,
                   policyCalls, envSteps, firstDone, policyBatch, stepBatch,
                   save_video>>
    /\ UNCHANGED <<env_num, success_rate, ledgerRest, simplerVars, simplerEvalVars,
                   singleVars, concVars, mainVars, pathVars, cliVars>>

NextRollout ==
    \/ BeginRollout
    \/ PolicyStep
    \/ EnvStep
    \/ EndRollout
    \/ WriteArtifacts

SpecRollout == InitRollout /\ [][NextRollout]_vars

(***************************************************************************)
(* Claims about the vectorized rollout (checked under SpecRollout).        *)
(***************************************************************************)

\* C7: a slot marked finished at the step s (0-based) gets episode_length s + 1,
\* and from then on every step of the rollout leaves it finished with the same
\* episode_length, whatever done flags are reported.
C7_FinishedSlotFrozen ==
    [][\A k \in DOMAIN finished_tasks :
          /\ finished_tasks[k] =>
                /\ finished_tasks'[k]
                /\ episode_length'[k] = episode_length[k]
          /\ (~finished_tasks[k] /\ finished_tasks'[k]) =>
                episode_length'[k] = step + 1]_vars

\* a slot finished at an earlier step has just been reported done again, another
\* slot is still running, and the length of the first is the earlier step
C7_Witness ==
    /\ rpc = "policy"
    /\ \E k \in DOMAIN finished_tasks :
          /\ finished_tasks[k] /\ dones[k]
          /\ episode_length[k] < step
          /\ episode_length[k] = firstDone[k]
    /\ \E j \in DOMAIN finished_tasks : ~finished_tasks[j]

InLoop == rpc \in {"policy", "envstep"}
LoopOver == rpc \in {"after", "done"}
EverySlotFinished == \A k \in Slots : finished_tasks[k]

\* the greatest element of a non-empty set of numbers
MaxOf(S) == CHOOSE x \in S : \A y \in S : y <= x

\* C8: the loop never goes on once all slots are finished; when it is over, it has
\* made as many policy calls as environment steps: the number of the step at
\* which the last slot finished when all finished, max_step otherwise.
C8_StopsWhenAllFinished ==
    /\ InLoop => ~EverySlotFinished
    /\ InLoop => (policyCalls = step + (IF rpc = "envstep" THEN 1 ELSE 0)
                  /\ envSteps = step)
    /\ LoopOver =>
          /\ policyCalls = envSteps
          /\ envSteps = IF EverySlotFinished
                        THEN MaxOf({firstDone[k] : k \in Slots})
                        ELSE max_step

\* all of several slots finished, at different steps, before the budget was used
C8_Witness ==
    /\ rpc = "after"
    /\ env_num >= 2
    /\ EverySlotFinished
    /\ firstDone[1] = 1 /\ firstDone[2] = ScenarioStep
    /\ envSteps = ScenarioStep /\ policyCalls = ScenarioStep
    /\ envSteps < max_step

\* C9: when the rollout is over, a slot reported done at some step has the number
\* of the first such step as episode_length and counts as success, a slot never
\* reported done has episode_length max_step and counts as failure, and the
\* success rate is the number of successful slots over env_num.
C9_LengthAndSuccess ==
    /\ LoopOver =>
          \A k \in Slots :
              /\ firstDone[k] # 0 =>
                    (finished_tasks[k] /\ episode_length[k] = firstDone[k])
              /\ firstDone[k] = 0 =>
                    (~finished_tasks[k] /\ episode_length[k] = max_step)
    /\ rpc = "done" =>
          success_rate =
              [shape |-> "float",
               rate |-> Div(Cardinality({k \in Slots : firstDone[k] # 0}), env_num)]

\* the scenario of the specification: only the third of four slots is reported
\* done, at the step ScenarioStep
C9_Witness ==
    /\ rpc = "done"
    /\ env_num = 4
    /\ firstDone = <<0, 0, ScenarioStep, 0>>
    /\ episode_length = <<max_step, max_step, ScenarioStep, max_step>>
    /\ finished_tasks = <<FALSE, FALSE, TRUE, FALSE>>
    /\ success_rate.rate = <<1, 4>>
    /\ envSteps = max_step

(***************************************************************************)
(* SpecSimpler: evaluate() of src/scripts/evaluate.py: the loop over the    *)
(* tasks, the runs of a task, the episode loop of a run (lines 104-142),   *)
(* and the result file written after each task. An environment is a        *)
(* SimplerEnv task of numSubtasks subtasks; its instruction is that of its *)
(* current subtask; it reports truncated after EpisodeLimit steps and      *)
(* success when it pleases.                                                *)
(***************************************************************************)
\* env.get_language_instruction()
InstructionOf(subtask) == subtask
\* env.is_final_subtask()
IsFinal(subtask, n) == subtask = n
\* env.advance_to_next_subtask()
AdvanceSubtask(subtask, n) == IF subtask < n THEN subtask + 1 ELSE subtask

\* (mutant) a predicted termination is never turned into an advance
ShouldAdvance_Never(pt, final) == FALSE

\* lines 123-124: if predicted_terminated: if not is_final_subtask:
ShouldAdvance(pt, final) == pt /\ ~final

\* (mutant) the driver keeps the instruction of the reset
UpdateInstruction_Stale(cur, new_instruction) == cur

\* lines 133-136: if new_instruction != instruction: instruction = new_instruction
UpdateInstruction(cur, new_instruction) ==
    IF new_instruction # cur THEN new_instruction ELSE cur

\* line 119: the episode is over when `not (truncated or success)` fails
EpisodeOver(trunc, succ) == trunc \/ succ

\* `sub in name` for the strings (model names, model paths) and the substrings
\* load_model tests
HasSubstring(name, sub) ==
    <<name, sub>> \in {<<"octo-small", "octo">>, <<"octo-base", "octo">>,
                       <<"octo-custom", "octo">>, <<"octo-tiny", "octo">>,
                       <<"rt_1_x", "rt_1">>, <<"rt_1_400k", "rt_1">>,
                       <<"rt_1", "rt_1">>,
                       <<"hf://rail-berkeley/octo-base-1.5", "octo">>,
                       <<"finetune_saves/hypernet/run1", "hypernet">>,
                       <<"finetune_saves/vanilla_lora/run1", "vanilla_lora">>}

\* the model names evaluate() is called with: an Octo model, an RT-1 model, and a
\* name load_model does not know
ModelNames == {"octo-custom", "rt_1_x", "other-model"}

\* lines 51-66, load_model: "ok" or the exception raised. The rt_1 branch calls
\* get_rt_1_checkpoint, a name the file neither defines nor imports.
load_model(name) ==
    IF HasSubstring(name, "rt_1") THEN "NameError"
    ELSE IF HasSubstring(name, "octo") THEN "ok"
    ELSE "ValueError"

\* lines 82-85: "google" in task_name decides the policy setup; the task list
\* has its google_robot tasks first
SimplerTasks == 1..SimplerNumTasks
PolicySetup(task) == IF task = 1 THEN "google_robot" ELSE "widowx_bridge"

InitSimpler ==
    /\ idleLedger
    /\ env_num = 1
    /\ success_rate = VecValue(0, 1)
    /\ idleRollout
    /\ idleSingle
    /\ idleArtifacts
    /\ idleConc
    /\ idleMain
    /\ idlePaths
    /\ idleCli
    /\ model_name \in ModelNames
    /\ previous_policy_setup = "" /\ simplerTask = 1
    /\ run = 0 /\ simpler_total_runs \in 1..MaxTotalRuns /\ success_count = 0
    /\ simplerResults = <<>> /\ simplerFile = Absent /\ simplerEnvOpen = 0
    /\ simplerEnvsMade = 0 /\ simplerVideos = 0 /\ modelLoads = 0
    /\ simplerErr = "none" /\ writeFailed = {} /\ lastWriteOk = FALSE
    /\ spc = "task" /\ instruction = 0 /\ is_final_subtask = FALSE
    /\ predicted_terminated = FALSE /\ success = FALSE /\ truncated = FALSE
    /\ timestep = 0 /\ nImages = 0
    /\ numSubtasks \in 1..MaxSubtasks
    /\ envSubtask = 1
    /\ envElapsed = 0 /\ policyInstruction = 0 /\ advanceCalls = 0
    /\ simplerEnvSteps = 0 /\ suppressed = FALSE

\* what the episode loop leaves alone
outsideSimpler == <<ledgerVars, rolloutVars, simplerEvalVars, singleVars,
                    artifactVars, concVars, mainVars, pathVars, cliVars>>
\* what evaluate() of src/scripts/evaluate.py leaves alone
outsideSimplerEval == <<ledgerVars, rolloutVars, singleVars, artifactVars,
                        concVars, mainVars, pathVars, cliVars>>
episodeVars == <<instruction, is_final_subtask, predicted_terminated, success,
                 truncated, timestep, nImages, numSubtasks, envSubtask, envElapsed,
                 policyInstruction, advanceCalls, simplerEnvSteps, suppressed>>

\* lines 80-90: the next task, its policy setup, and the model loaded when the
\* setup differs from the previous one
STaskHead ==
    /\ spc = "task"
    /\ IF simplerTask > SimplerNumTasks
       THEN /\ spc' = "returned"
            /\ UNCHANGED <<previous_policy_setup, modelLoads, simplerErr>>
       ELSE LET policy_setup == PolicySetup(simplerTask)
                loadResult == IF policy_setup # previous_policy_setup
                              THEN load_model(model_name) ELSE "ok"
            IN IF loadResult = "ok"
               THEN /\ modelLoads' = modelLoads
                        + (IF policy_setup # previous_policy_setup THEN 1 ELSE 0)
                    /\ previous_policy_setup' = policy_setup
                    /\ spc' = "make"
                    /\ simplerErr' = simplerErr
               ELSE /\ spc' = "error"
                    /\ simplerErr' = loadResult
                    /\ UNCHANGED <<previous_policy_setup, modelLoads>>
    /\ UNCHANGED <<model_name, simplerTask, run, simpler_total_runs, success_count,
                   simplerResults, simplerFile, simplerEnvOpen, simplerEnvsMade,
                   simplerVideos, writeFailed, lastWriteOk>>
    /\ UNCHANGED episodeVars
    /\ UNCHANGED outsideSimplerEval

\* lines 92-102: simpler_env.make(task_name), env.reset(), the counters of the task
SMakeEnv ==
    /\ spc = "make"
    /\ simplerEnvOpen' = simplerEnvOpen + 1
    /\ simplerEnvsMade' = simplerEnvsMade + 1
    /\ envSubtask' = 1
    /\ envElapsed' = 0
    /\ instruction' = InstructionOf(1)
    /\ success_count' = 0
    /\ run' = 0
    /\ spc' = "run"
    /\ UNCHANGED <<model_name, previous_policy_setup, simplerTask, simpler_total_runs,
                   simplerResults, simplerFile, simplerVideos, modelLoads, simplerErr,
                   writeFailed, lastWriteOk>>
    /\ UNCHANGED <<is_final_subtask, predicted_terminated, success, truncated,
                   timestep, nImages, numSubtasks, policyInstruction, advanceCalls,
                   simplerEnvSteps, suppressed>>
    /\ UNCHANGED outsideSimplerEval

\* lines 104-118: env.reset(), the instruction and the final-subtask flag,
\* model.reset(instruction), the first image, the flags
SBeginRun ==
    /\ spc = "run"
    /\ run < simpler_total_runs
    /\ envSubtask' = 1
    /\ envElapsed' = 0
    /\ instruction' = InstructionOf(1)
    /\ is_final_subtask' = IsFinal(1, numSubtasks)
    /\ nImages' = 1
    /\ predicted_terminated' = FALSE
    /\ success' = FALSE
    /\ truncated' = FALSE
    /\ timestep' = 0
    /\ policyInstruction' = 0
    /\ advanceCalls' = 0
    /\ simplerEnvSteps' = 0
    /\ suppressed' = FALSE
    /\ spc' = "while"
    /\ UNCHANGED numSubtasks
    /\ UNCHANGED outsideSimpler

\* line 119: while not (truncated or success)
SWhile ==
    /\ spc = "while"
    /\ IF EpisodeOver(truncated, success)
       THEN spc' = "finished" /\ suppressed' = suppressed
       ELSE spc' = "policy" /\ suppressed' = FALSE
    /\ UNCHANGED <<instruction, is_final_subtask, predicted_terminated, success,
                   truncated, timestep, nImages, numSubtasks, envSubtask, envElapsed,
                   policyInstruction, advanceCalls, simplerEnvSteps>>
    /\ UNCHANGED outsideSimpler

\* lines 121-122: model.step(image, instruction) and the predicted termination
SPolicy ==
    /\ spc = "policy"
    /\ \E terminate \in BOOLEAN : predicted_terminated' = terminate
    /\ policyInstruction' = instruction
    /\ spc' = "gate"
    /\ UNCHANGED <<instruction, is_final_subtask, success, truncated, timestep,
                   nImages, numSubtasks, envSubtask, envElapsed, advanceCalls,
                   simplerEnvSteps, suppressed>>
    /\ UNCHANGED outsideSimpler

\* lines 123-127: a termination predicted before the final subtask is cleared and
\* the environment advanced to the next subtask
SGate ==
    /\ spc = "gate"
    /\ IF ShouldAdvance(predicted_terminated, is_final_subtask)
       THEN /\ predicted_terminated' = FALSE
            /\ envSubtask' = AdvanceSubtask(envSubtask, numSubtasks)
            /\ advanceCalls' = advanceCalls + 1
            /\ suppressed' = TRUE
       ELSE UNCHANGED <<predicted_terminated, envSubtask, advanceCalls, suppressed>>
    /\ spc' = "envstep"
    /\ UNCHANGED <<instruction, is_final_subtask, success, truncated, timestep,
                   nImages, numSubtasks, envElapsed, policyInstruction,
                   simplerEnvSteps>>
    /\ UNCHANGED outsideSimpler

\* lines 129-142: env.step(action), the instruction and the final-subtask flag
\* read again, the image appended, timestep += 1
SEnvStep ==
    /\ spc = "envstep"
    /\ \E succ \in BOOLEAN : success' = succ
    /\ envElapsed' = envElapsed + 1
    /\ truncated' = (envElapsed + 1 >= EpisodeLimit)
    /\ simplerEnvSteps' = simplerEnvSteps + 1
    /\ instruction' = UpdateInstruction(instruction, InstructionOf(envSubtask))
    /\ is_final_subtask' = IsFinal(envSubtask, numSubtasks)
    /\ nImages' = nImages + 1
    /\ timestep' = timestep + 1
    /\ spc' = "while"
    /\ UNCHANGED <<predicted_terminated, numSubtasks, envSubtask, policyInstruction,
                   advanceCalls, suppressed>>
    /\ UNCHANGED outsideSimpler

\* lines 143-150: the run is counted and its video written; the next run
SEndRun ==
    /\ spc = "finished"
    /\ success_count' = success_count + (IF success THEN 1 ELSE 0)
    /\ simplerVideos' = simplerVideos + 1
    /\ run' = run + 1
    /\ spc' = "run"
    /\ UNCHANGED <<model_name, previous_policy_setup, simplerTask, simpler_total_runs,
                   simplerResults, simplerFile, simplerEnvOpen, simplerEnvsMade,
                   modelLoads, simplerErr, writeFailed, lastWriteOk>>
    /\ UNCHANGED episodeVars
    /\ UNCHANGED outsideSimplerEval

\* lines 151-153: after the last run env.close() and the entry of the task
SRecord ==
    /\ spc = "run"
    /\ run >= simpler_total_runs
    /\ simplerEnvOpen' = simplerEnvOpen - 1
    /\ simplerResults' = SetItem(simplerResults, simplerTask,
                                 VecValue(success_count, simpler_total_runs))
    /\ spc' = "open"
    /\ UNCHANGED <<model_name, previous_policy_setup, simplerTask, run,
                   simpler_total_runs, success_count, simplerFile, simplerEnvsMade,
                   simplerVideos, modelLoads, simplerErr, writeFailed, lastWriteOk>>
    /\ UNCHANGED episodeVars
    /\ UNCHANGED outsideSimplerEval

\* (mutant) no try/except: a failed write ends evaluate()
AfterWriteFailure_Raise == "error"

\* lines 157-158: `except: continue`, the for loop goes on with the next task
AfterWriteFailure == "task"

\* lines 154-155: open(..., 'w') truncates the file, or fails
SOpenWrite ==
    /\ spc = "open"
    /\ \/ /\ simplerFile' = PartialText(simplerResults, 0)
          /\ spc' = "dump"
          /\ UNCHANGED <<simplerTask, writeFailed, lastWriteOk, simplerErr>>
       \/ /\ spc' = AfterWriteFailure
          /\ simplerErr' = IF AfterWriteFailure = "error" THEN "OSError"
                            ELSE simplerErr
          /\ writeFailed' = writeFailed \cup {simplerTask}
          /\ lastWriteOk' = FALSE
          /\ simplerTask' = simplerTask + 1
          /\ UNCHANGED simplerFile
    /\ UNCHANGED <<model_name, previous_policy_setup, run, simpler_total_runs,
                   success_count, simplerResults, simplerEnvOpen, simplerEnvsMade,
                   simplerVideos, modelLoads>>
    /\ UNCHANGED episodeVars
    /\ UNCHANGED outsideSimplerEval

\* lines 156-158: json.dump writes the mapping and the file is closed, or the
\* write fails and leaves the text cut short: after any number of its entries,
\* all of them included (the closing brace is missing)
SDump ==
    /\ spc = "dump"
    /\ \/ /\ simplerFile' = JsonText(simplerResults)
          /\ lastWriteOk' = TRUE
          /\ spc' = "task"
          /\ UNCHANGED <<writeFailed, simplerErr>>
       \/ /\ \E n \in 0..Len(simplerResults) :
                simplerFile' = PartialText(simplerResults, n)
          /\ lastWriteOk' = FALSE
          /\ writeFailed' = writeFailed \cup {simplerTask}
          /\ spc' = AfterWriteFailure
          /\ simplerErr' = IF AfterWriteFailure = "error" THEN "OSError"
                            ELSE simplerErr
    /\ simplerTask' = simplerTask + 1
    /\ UNCHANGED <<model_name, previous_policy_setup, run, simpler_total_runs,
                   success_count, simplerResults, simplerEnvOpen, simplerEnvsMade,
                   simplerVideos, modelLoads>>
    /\ UNCHANGED episodeVars
    /\ UNCHANGED outsideSimplerEval

NextSimpler ==
    \/ STaskHead
    \/ SMakeEnv
    \/ SBeginRun
    \/ SWhile
    \/ SPolicy
    \/ SGate
    \/ SEnvStep
    \/ SEndRun
    \/ SRecord
    \/ SOpenWrite
    \/ SDump

SpecSimpler == InitSimpler /\ [][NextSimpler]_vars

(***************************************************************************)
(* Claims about the SimplerEnv episode loop (checked under SpecSimpler).   *)
(***************************************************************************)

\* C10: a termination predicted while the environment is not on its final subtask
\* does not end the episode: the gate clears predicted_terminated and advances
\* the environment by one subtask, the next thing the loop does is the env.step
\* of the same iteration, and after that iteration the loop ends only if that
\* env.step itself reported success or truncated.
C10_TerminationGated ==
    /\ [][(spc = "gate" /\ predicted_terminated /\ ~is_final_subtask) =>
            /\ ~predicted_terminated'
            /\ envSubtask' = envSubtask + 1
            /\ advanceCalls' = advanceCalls + 1
            /\ suppressed'
            /\ spc' = "envstep"
            /\ timestep' = timestep
            /\ simplerEnvSteps' = simplerEnvSteps]_vars
    /\ [][spc = "envstep" =>
            /\ simplerEnvSteps' = simplerEnvSteps + 1
            /\ timestep' = timestep + 1
            /\ predicted_terminated' = predicted_terminated
            /\ spc' = "while"]_vars
    /\ [][(spc = "while" /\ suppressed) =>
            /\ spc' \in {"policy", "finished"}
            /\ spc' = "finished" <=> (success \/ truncated)]_vars

\* the second iteration of an episode starts after the first one predicted a
\* termination on the first of two subtasks
C10_Witness ==
    /\ spc = "policy"
    /\ timestep = 1 /\ simplerEnvSteps = 1
    /\ advanceCalls = 1
    /\ numSubtasks = 2 /\ envSubtask = 2
    /\ ~predicted_terminated
    /\ instruction = InstructionOf(2)


\* C11: a termination the policy predicted on the final subtask is honored: when
\* the loop condition is evaluated after an iteration whose prediction the gate
\* let stand (predicted_terminated is still true, which the gate allows on the
\* final subtask only), the loop ends.
C11_FinalTerminationHonored ==
    [][(spc = "while" /\ timestep > 0 /\ predicted_terminated) =>
            spc' = "finished"]_vars

\* C12: the instruction given to a policy step is the one the environment reported
\* after the previous env.step (after the reset for the first step), and so is
\* the final-subtask flag the gate of that step uses: a subtask the environment
\* advanced to during step t is what the policy call of step t+1 is told.
C12_InstructionPropagated ==
    /\ spc = "policy" =>
            /\ instruction = InstructionOf(envSubtask)
            /\ is_final_subtask = IsFinal(envSubtask, numSubtasks)
    /\ spc = "gate" =>
            /\ policyInstruction = instruction
            /\ policyInstruction = InstructionOf(envSubtask)
            /\ is_final_subtask = IsFinal(envSubtask, numSubtasks)

\* the policy call of the second step is given the instruction of the second
\* subtask, to which the environment advanced during the first step
C12_Witness ==
    /\ spc = "gate"
    /\ timestep = 1 /\ simplerEnvSteps = 1
    /\ advanceCalls = 1 /\ envSubtask = 2
    /\ policyInstruction = InstructionOf(2)
    /\ policyInstruction # InstructionOf(1)
    /\ is_final_subtask


\* the tasks whose runs are all done and whose entry has been recorded
SimplerCompleted ==
    {t \in SimplerTasks : t < simplerTask \/ (t = simplerTask /\ spc \in {"open", "dump"})}

\* C16: a failed write of the result file is swallowed: evaluate() raises nothing
\* and goes on with the next task, the entry of every completed task stays in the
\* in-memory mapping, and a write that succeeds leaves in the file the entries
\* of all the tasks completed so far, those of the failed writes included.
C16_WriteFailureSwallowed ==
    /\ [](/\ writeFailed # {} => (simplerErr = "none" /\ spc # "error")
          /\ \A t \in SimplerCompleted : HasKey(simplerResults, t)
          /\ writeFailed \subseteq SimplerCompleted
          /\ (lastWriteOk /\ spc \notin {"open", "dump"}) =>
                /\ simplerFile = JsonText(simplerResults)
                /\ \A t \in SimplerCompleted : HasKey(simplerFile.items, t))
    /\ [][(spc \in {"open", "dump"} /\ writeFailed' # writeFailed) =>
            /\ spc' = "task"
            /\ simplerTask' = simplerTask + 1
            /\ simplerResults' = simplerResults]_vars

\* the write after the second task succeeded after the write after the first
\* task had failed, and the file holds both entries
C16_Witness ==
    /\ spc = "task" /\ simplerTask = 3
    /\ writeFailed = {1} /\ lastWriteOk
    /\ simplerFile.kind = "json"
    /\ HasKey(simplerFile.items, 1)
    /\ HasKey(simplerFile.items, 2)


(***************************************************************************)
(* SpecSingle: the runs of one task in src/domains/LIBERO/evaluate.py,     *)
(* lines 94-125: one environment, one episode per run, at most 600 steps.  *)
(* The environment reports done at the steps of DoneSteps only, and any    *)
(* reward of RewardValues at any step.                                     *)
(***************************************************************************)
\* line 105: for t in range(600)
single_max_step == 600

\* the rewards env.step returns
RewardValues == {0, 1}

\* (mutant) the loop ignores done
ShouldBreak_Never(d) == FALSE

\* lines 115-116: if done: break
ShouldBreak(d) == d

\* line 117: success = (reward > 0)
SingleSuccess(r, d) == r > 0

\* what the episode code leaves alone
outsideSingle == <<ledgerVars, rolloutVars, simplerVars, simplerEvalVars,
                   artifactVars, concVars, mainVars, pathVars, cliVars>>

InitSingle ==
    /\ idleLedger
    /\ env_num = 1
    /\ success_rate = VecValue(0, 1)
    /\ idleRollout
    /\ idleSimpler
    /\ idleSimplerEval
    /\ idleConc
    /\ idleMain
    /\ idlePaths
    /\ idleCli
    /\ save_video \in BOOLEAN /\ videos = <<>> /\ recordWrites = 0
    /\ gpc = "run" /\ single_run = 0 /\ single_t = 0 /\ single_done = FALSE
    /\ single_reward = 0 /\ single_images = 0 /\ single_success = "unset"
    /\ single_success_count = 0 /\ episode_results = <<>>
    /\ singlePolicyCalls = 0 /\ singleEnvSteps = 0 /\ singleDoneAt = 0
    /\ singleVideos = <<>>

\* lines 97-105: env.reset(), set_init_state, images = [image], done = False, and
\* the first value of `for t in range(600)`
GBeginRun ==
    /\ gpc = "run"
    /\ single_run < total_runs
    /\ single_images' = 1
    /\ single_done' = FALSE
    /\ single_t' = 0
    /\ singlePolicyCalls' = 0
    /\ singleEnvSteps' = 0
    /\ singleDoneAt' = 0
    /\ gpc' = "policy"
    /\ UNCHANGED <<single_run, single_reward, single_success, single_success_count,
                   episode_results, singleVideos>>
    /\ UNCHANGED outsideSingle

\* line 107: model.step(image)
GPolicy ==
    /\ gpc = "policy"
    /\ singlePolicyCalls' = singlePolicyCalls + 1
    /\ gpc' = "envstep"
    /\ UNCHANGED <<single_run, single_t, single_done, single_reward, single_images,
                   single_success, single_success_count, episode_results,
                   singleEnvSteps, singleDoneAt, singleVideos>>
    /\ UNCHANGED outsideSingle

\* lines 109-116: env.step, images.append(image), if done: break
GEnvStep ==
    /\ gpc = "envstep"
    /\ \E d \in (IF single_t + 1 \in DoneSteps THEN BOOLEAN ELSE {FALSE}),
          r \in RewardValues :
          /\ single_done' = d
          /\ single_reward' = r
          /\ singleDoneAt' = IF d /\ singleDoneAt = 0 THEN single_t + 1
                             ELSE singleDoneAt
          /\ gpc' = IF ShouldBreak(d) THEN "after" ELSE "for"
    /\ single_images' = single_images + 1
    /\ singleEnvSteps' = singleEnvSteps + 1
    /\ UNCHANGED <<single_run, single_t, single_success, single_success_count,
                   episode_results, singlePolicyCalls, singleVideos>>
    /\ UNCHANGED outsideSingle

\* line 105: the next value of range(600), or the end of the loop
GFor ==
    /\ gpc = "for"
    /\ IF single_t + 1 < single_max_step
       THEN single_t' = single_t + 1 /\ gpc' = "policy"
       ELSE single_t' = single_t /\ gpc' = "after"
    /\ UNCHANGED <<single_run, single_done, single_reward, single_images,
                   single_success, single_success_count, episode_results,
                   singlePolicyCalls, singleEnvSteps, singleDoneAt, singleVideos>>
    /\ UNCHANGED outsideSingle

\* lines 117-124: the outcome of the run, its video when save_video is set, and
\* the next run
GEndRun ==
    /\ gpc = "after"
    /\ LET succ == SingleSuccess(single_reward, single_done) IN
          /\ single_success' = succ
          /\ single_success_count' = single_success_count + (IF succ THEN 1 ELSE 0)
          /\ episode_results' = Append(episode_results, succ)
          /\ singleVideos' =
                IF save_video
                THEN Append(singleVideos,
                            <<single_run + 1,
                              IF succ THEN "success" ELSE "fail",
                              single_images>>)
                ELSE singleVideos
    /\ single_run' = single_run + 1
    /\ gpc' = "run"
    /\ UNCHANGED <<single_t, single_done, single_reward, single_images,
                   singlePolicyCalls, singleEnvSteps, singleDoneAt>>
    /\ UNCHANGED outsideSingle

\* line 125: env.close() after the last run
GClose ==
    /\ gpc = "run"
    /\ single_run >= total_runs
    /\ gpc' = "closed"
    /\ UNCHANGED <<single_run, single_t, single_done, single_reward, single_images,
                   single_success, single_success_count, episode_results,
                   singlePolicyCalls, singleEnvSteps, singleDoneAt, singleVideos>>
    /\ UNCHANGED outsideSingle

NextSingle ==
    \/ GBeginRun
    \/ GPolicy
    \/ GEnvStep
    \/ GFor
    \/ GEndRun
    \/ GClose

SpecSingle == InitSingle /\ [][NextSingle]_vars

(***************************************************************************)
(* Claims about the single-environment episode (checked under SpecSingle). *)
(***************************************************************************)

\* C13: an episode of the single-environment driver makes at most 600 policy and
\* 600 environment steps, one policy step before each environment step; no
\* step is made after a step that reported done; when the loop is over the
\* number of steps made is that of the first done step, or 600 when there was
\* none; the outcome recorded for the run is (reward > 0) of the last step
\* made; and images holds the initial image and one image per step made.
C13_SingleEpisode ==
    /\ singleEnvSteps <= 600 /\ singlePolicyCalls <= 600
    /\ gpc \in {"policy", "envstep", "for"} => singleDoneAt = 0
    /\ gpc \in {"policy", "for", "after"} =>
            /\ singlePolicyCalls = singleEnvSteps
            /\ single_images = 1 + singleEnvSteps
    /\ gpc = "after" =>
            /\ singleEnvSteps = (IF singleDoneAt > 0 THEN singleDoneAt ELSE 600)
            /\ singleDoneAt > 0 <=> single_done
    /\ gpc \in {"run", "closed"} /\ single_run > 0 =>
            /\ Len(episode_results) = single_run
            /\ episode_results[single_run] = (single_reward > 0)
            /\ single_success = (single_reward > 0)
            /\ single_images = 1 + singleEnvSteps
            /\ singleEnvSteps = (IF singleDoneAt > 0 THEN singleDoneAt ELSE 600)

\* an episode stopped by the done of its 37th step and recorded as a success
C13_Witness ==
    /\ gpc = "closed"
    /\ singleDoneAt = ScenarioStep /\ singleEnvSteps = ScenarioStep
    /\ single_images = ScenarioStep + 1
    /\ single_reward > 0 /\ episode_results = <<TRUE>>


(***************************************************************************)
(* Claims about the artifacts of a vectorized rollout (SpecRollout).       *)
(***************************************************************************)

\* C14: with save_video, a task writes one video per slot, in slot order, named
\* by the number of the slot (i + 1 for the slot i of the source) and by
\* "success" when the slot finished and "fail" otherwise; the video of a slot
\* has as many frames as its episode_length, that is the frames of the steps up
\* to and including the first step at which the slot reported done (all 600
\* when it never did); record.pkl is written once. Nothing is written before
\* the rollout is over.
C14_OneVideoPerSlot ==
    /\ rpc # "saved" => (videos = <<>> /\ recordWrites = 0)
    /\ (rpc = "saved" /\ save_video) =>
            /\ recordWrites = 1
            /\ Len(videos) = env_num
            /\ \A k \in Slots :
                /\ videos[k].name = k
                /\ videos[k].result = (IF finished_tasks[k] THEN "success" ELSE "fail")
                /\ videos[k].frames = episode_length[k]
                /\ videos[k].frames =
                        (IF firstDone[k] > 0 THEN firstDone[k] ELSE max_step)
                /\ videos[k].frames <= frames

\* the videos of two slots: one finished at the first step, with a video of one
\* frame, the other never finished, with a video of 600 frames
C14_Witness ==
    /\ rpc = "saved" /\ save_video /\ env_num = 2
    /\ videos[1] = [name |-> 1, result |-> "success", frames |-> 1]
    /\ videos[2] = [name |-> 2, result |-> "fail", frames |-> max_step]
    /\ frames = max_step
    /\ recordWrites = 1

\* C15: without save_video a task writes no video and no record file, and buffers
\* no overlay frame.
C15_NoArtifactsWhenDisabled ==
    ~save_video =>
        /\ videos = <<>>
        /\ recordWrites = 0
        /\ frames = 0


(***************************************************************************)
(* Claims about failures of the environment (checked under Spec).          *)
(***************************************************************************)

\* C17: when the environment (pool) of a task raises, the run ends with that
\* error: the task has no entry in the mapping and none was recorded by this
\* run, and the result file is as the previous task left it: the complete text
\* of the mapping loaded at the start plus the entries this run recorded (no
\* file at all when there was none and no task was recorded).
C17_EnvFailureEndsTask ==
    err = "EnvError" =>
        /\ pc = "error"
        /\ idx \in 1..Len(tasks)
        /\ ~HasKey(all_tasks_success_rate, tasks[idx])
        /\ \A i \in 1..Len(completed) : completed[i][1] # tasks[idx]
        /\ file.kind \in {"absent", "json"}
        /\ file.kind = "json" =>
                /\ file.items = all_tasks_success_rate
                /\ \A i \in 1..Len(completed) : completed[i] \in FileEntries(file)
        /\ file.kind = "absent" => (all_tasks_success_rate = <<>> /\ completed = <<>>)

\* the pool of the second task failed in the vectorized evaluator, after the first
\* task was evaluated and written by this run
C17_Witness ==
    /\ err = "EnvError" /\ pc = "error" /\ mode = "vec"
    /\ idx = 2 /\ Len(completed) = 1
    /\ file.kind = "json"
    /\ HasKey(file.items, tasks[1])
    /\ ~HasKey(file.items, tasks[2])


(***************************************************************************)
(* SpecConc: two processes run evaluate() of octo/domains/LIBERO with the  *)
(* same arguments, hence on the same result file and the same tasks. Each  *)
(* loads the file once (lines 48-53), and after each task it evaluates     *)
(* rewrites the whole file from its own mapping (lines 194-197). The steps *)
(* of the two processes interleave freely: the code takes no lock.         *)
(***************************************************************************)
Procs == {"A", "B"}

\* the text a close() leaves when another process wrote the file after this one
\* truncated it: this text from offset 0, and what is left of the longer text
\* under it, which json.load rejects
Overlaid(d) == [kind |-> "partial", items |-> d]

\* the texts the file can hold after json.dump and close of the mapping d, given
\* the file as it is now: empty since this process truncated it, or written by
\* the other process in between (the new text overwrites the old one from
\* offset 0 and covers it when it is at least as long)
TextsAfterClose(d, f) ==
    IF f.kind = "json" THEN {JsonText(d), Overlaid(d)} ELSE {JsonText(d)}

\* (mutant) the mapping is read again from the file before the entry is added
MappingForRecord_Reload(own, f) ==
    IF f.kind = "json" /\ Len(f.items) > Len(own) THEN f.items ELSE own

\* lines 49-53 and 194: the mapping loaded at the start is the one the entry is
\* added to; the file is not read again
MappingForRecord(own, f) == own

outsideConc == <<ledgerVars, rolloutVars, simplerVars, simplerEvalVars, singleVars,
                artifactVars, mainVars, pathVars, cliVars>>

InitConc ==
    /\ idleLedger
    /\ env_num = 1
    /\ success_rate = VecValue(0, 1)
    /\ idleRollout
    /\ idleSimpler
    /\ idleSimplerEval
    /\ idleSingle
    /\ idleArtifacts
    /\ idleMain
    /\ idlePaths
    /\ idleCli
    /\ cFile \in {Absent} \cup {JsonText(d) : d \in PriorMappings("vec", 1, 1)}
    /\ cpc = [p \in Procs |-> "load"]
    /\ cMap = [p \in Procs |-> <<>>]
    /\ cIdx = [p \in Procs |-> 1]
    /\ cLoaded = [p \in Procs |-> <<>>]
    /\ cOwn = [p \in Procs |-> <<>>]
    /\ cErr = [p \in Procs |-> "none"]

\* lines 48-53: the process loads the file as it is at that moment
CLoad(p) ==
    /\ cpc[p] = "load"
    /\ IF cFile.kind = "absent"
       THEN /\ cpc' = [cpc EXCEPT ![p] = "loop"]
            /\ UNCHANGED <<cMap, cLoaded, cErr>>
       ELSE LET r == json_load(cFile) IN
            IF r.ok
            THEN /\ cMap' = [cMap EXCEPT ![p] = r.value]
                 /\ cLoaded' = [cLoaded EXCEPT ![p] = r.value]
                 /\ cpc' = [cpc EXCEPT ![p] = "loop"]
                 /\ UNCHANGED cErr
            ELSE /\ cErr' = [cErr EXCEPT ![p] = "JSONDecodeError"]
                 /\ cpc' = [cpc EXCEPT ![p] = "error"]
                 /\ UNCHANGED <<cMap, cLoaded>>
    /\ UNCHANGED <<cFile, cIdx, cOwn>>
    /\ UNCHANGED outsideConc

\* lines 69-78: the next task, skipped when the mapping of the process has it
CLoopHead(p) ==
    /\ cpc[p] = "loop"
    /\ IF cIdx[p] > Len(tasks)
       THEN cpc' = [cpc EXCEPT ![p] = "done"] /\ cIdx' = cIdx
       ELSE IF SkipTask(cMap[p], tasks[cIdx[p]])
            THEN cpc' = cpc /\ cIdx' = [cIdx EXCEPT ![p] = @ + 1]
            ELSE cpc' = [cpc EXCEPT ![p] = "eval"] /\ cIdx' = cIdx
    /\ UNCHANGED <<cFile, cMap, cLoaded, cOwn, cErr>>
    /\ UNCHANGED outsideConc

\* lines 80-194: the task is evaluated and its entry put in the mapping; or
\* its environment raises (creation, reset, set_init_state, step) and the
\* exception ends the process, mapping and file as they were
CEvaluate(p) ==
    /\ cpc[p] = "eval"
    /\ \/ /\ \E v \in ValuesOf("vec", 1) :
                /\ cMap' = [cMap EXCEPT ![p] =
                        SetItem(MappingForRecord(cMap[p], cFile), tasks[cIdx[p]], v)]
                /\ cOwn' = [cOwn EXCEPT ![p] = Append(@, <<tasks[cIdx[p]], v>>)]
          /\ cpc' = [cpc EXCEPT ![p] = "open"]
          /\ UNCHANGED cErr
       \/ /\ cpc' = [cpc EXCEPT ![p] = "error"]
          /\ cErr' = [cErr EXCEPT ![p] = "EnvError"]
          /\ UNCHANGED <<cMap, cOwn>>
    /\ UNCHANGED <<cFile, cIdx, cLoaded>>
    /\ UNCHANGED outsideConc

\* line 196: open(..., 'w') empties the file, whoever wrote it
COpen(p) ==
    /\ cpc[p] = "open"
    /\ cFile' = PartialText(cMap[p], 0)
    /\ cpc' = [cpc EXCEPT ![p] = "dump"]
    /\ UNCHANGED <<cMap, cIdx, cLoaded, cOwn, cErr>>
    /\ UNCHANGED outsideConc

\* line 197 and the end of the with block: the text of the mapping is written
\* from offset 0 and the file closed
CDump(p) ==
    /\ cpc[p] = "dump"
    /\ cFile' \in TextsAfterClose(cMap[p], cFile)
    /\ cpc' = [cpc EXCEPT ![p] = "loop"]
    /\ cIdx' = [cIdx EXCEPT ![p] = @ + 1]
    /\ UNCHANGED <<cMap, cLoaded, cOwn, cErr>>
    /\ UNCHANGED outsideConc

NextConc ==
    \E p \in Procs :
        \/ CLoad(p)
        \/ CLoopHead(p)
        \/ CEvaluate(p)
        \/ COpen(p)
        \/ CDump(p)

SpecConc == InitConc /\ [][NextConc]_vars


(***************************************************************************)
(* Claims about concurrent evaluations (checked under SpecConc).           *)
(***************************************************************************)

\* the mapping of a process is what it loaded at its start followed by the
\* entries it recorded itself
OwnView(p) == cLoaded[p] \o cOwn[p]

\* C19: nothing serializes two processes on one result file. The mapping a
\* process holds is at all times what it loaded once at its start plus its own
\* entries, never an entry the other process recorded since; a write of a
\* process puts the text of that mapping alone in the file, whatever the other
\* process had written, after its open() emptied the file. Hence there are
\* interleavings (C19_Witness) after which an entry one process recorded is not
\* in the final file.
C19_NoLockLostUpdate ==
    /\ [](\A p \in Procs :
            /\ cMap[p] = OwnView(p)
            /\ cpc[p] = "dump" => cFile.kind \in {"partial", "json"})
    /\ [][\A p \in Procs :
            (cpc[p] = "dump" /\ cpc'[p] = "loop") => cFile'.items = OwnView(p)]_vars
    /\ [][\A p \in Procs :
            (cpc[p] = "open" /\ cpc'[p] = "dump") =>
                (cFile'.kind = "partial" /\ cFile'.items = <<>>)]_vars

\* both processes ran to the end without an error, and the entry process A
\* recorded for the first task is not in the final file, a complete JSON text
C19_Witness ==
    /\ \A p \in Procs : cpc[p] = "done" /\ cErr[p] = "none"
    /\ cFile.kind = "json"
    /\ Len(cOwn["A"]) >= 1
    /\ cOwn["A"][1][1] = tasks[1]
    /\ cOwn["A"][1] \notin FileEntries(cFile)


(***************************************************************************)
(* SpecMain: __main__ of octo/domains/LIBERO/evaluate.py (lines 214-217;   *)
(* lines 202-205 of domains/LIBERO/evaluate.py are the same) and the       *)
(* evaluate() it calls for each seed: the load of that seed's result file, *)
(* the tasks of the split, the loop over them. A string is a sequence of   *)
(* characters; the task names of the split file end with a suffix of ten   *)
(* characters, a name being <<stem, suffix>>.                              *)
(***************************************************************************)
MaxSeedsLen == 3

SeedChars == {"0", "1", "+"}
SeedStrings == UNION {[1..n -> SeedChars] : n \in 1..MaxSeedsLen}

\* s.split('+')
RECURSIVE SplitPlus(_)
SplitPlus(s) ==
    IF \A i \in 1..Len(s) : s[i] # "+" THEN <<s>>
    ELSE LET i == CHOOSE i \in 1..Len(s) :
                    s[i] = "+" /\ \A j \in 1..(i - 1) : s[j] # "+"
         IN <<SubSeq(s, 1, i - 1)>> \o SplitPlus(SubSeq(s, i + 1, Len(s)))

RECURSIVE Decimal(_)
Decimal(tok) ==
    IF tok = <<>> THEN 0
    ELSE 10 * Decimal(SubSeq(tok, 1, Len(tok) - 1))
            + (IF tok[Len(tok)] = "1" THEN 1 ELSE 0)

\* eval(seed) of a string of digits: a SyntaxError for the empty string and for
\* a leading zero before a nonzero number, the number otherwise
EvalSeed(tok) ==
    IF tok = <<>> THEN [ok |-> FALSE, value |-> 0]
    ELSE IF \A i \in 1..Len(tok) : tok[i] = "0" THEN [ok |-> TRUE, value |-> 0]
    ELSE IF tok[1] = "0" THEN [ok |-> FALSE, value |-> 0]
    ELSE [ok |-> TRUE, value |-> Decimal(tok)]

\* line 214: seeds = [eval(seed) for seed in args.seeds.split('+')]
ParseSeeds(s) ==
    LET toks == SplitPlus(s) IN
    IF \E i \in 1..Len(toks) : ~EvalSeed(toks[i]).ok
    THEN [ok |-> FALSE, value |-> <<>>]
    ELSE [ok |-> TRUE, value |-> [i \in 1..Len(toks) |-> EvalSeed(toks[i]).value]]

\* the seeds a string of SeedStrings can name
SeedValues ==
    {Decimal(d) : d \in UNION {[1..n -> {"0", "1"}] : n \in 1..MaxSeedsLen}}

\* task_suite.tasks: the names of the suite, and task_split.pkl: the file names of
\* the train and of the test tasks
all_task_names == <<"open_drawer", "close_drawer", "pick_bowl">>
train_tasks == <<<<"pick_bowl", "_demo.hdf5">>, <<"open_drawer", "_demo.hdf5">>>>
test_tasks == <<<<"close_drawer", "_demo.hdf5">>>>

\* line 215: tasks = [0]
tasksArg == <<0>>

\* the values of --split
SplitArgs == {"train", "test", "val"}

\* task_name[:-10]
StripSuffix(name) == name[1]

\* all_task_names.index(x), 0-based
IndexOf(names, x) == (CHOOSE i \in 1..Len(names) :
                        names[i] = x /\ \A j \in 1..(i - 1) : names[j] # x) - 1

\* (mutant) the tasks argument is used
ResolveTasks_Argument(sp, arg) == arg

\* lines 63-67: the task ids of the split; the tasks argument is overwritten
ResolveTasks(sp, arg) ==
    LET chosen == IF sp = "train" THEN train_tasks ELSE test_tasks
    IN [i \in 1..Len(chosen) |-> IndexOf(all_task_names, StripSuffix(chosen[i]))]

\* task_suite.get_task(task_id).name
TaskName(task_id) == all_task_names[task_id + 1]

outsideMain == <<ledgerVars, rolloutVars, simplerVars, simplerEvalVars, singleVars,
                artifactVars, concVars, pathVars, cliVars>>

InitMain ==
    /\ idleLedger
    /\ env_num = 1
    /\ success_rate = VecValue(0, 1)
    /\ idleRollout
    /\ idleSimpler
    /\ idleSimplerEval
    /\ idleSingle
    /\ idleArtifacts
    /\ idleConc
    /\ idlePaths
    /\ idleCli
    /\ mainpc = "parse"
    /\ seedsArg \in SeedStrings
    /\ split \in SplitArgs
    /\ seeds = <<>> /\ seedPos = 0 /\ mainTasks = <<>> /\ mainIdx = 0
    /\ mainMap = <<>>
    /\ seedFiles = [s \in SeedValues |-> Absent]
    /\ calls = <<>> /\ returned = 0 /\ mainErr = "none"

\* lines 214-215: the seed list is parsed, or eval raises
MParse ==
    /\ mainpc = "parse"
    /\ LET r == ParseSeeds(seedsArg) IN
          IF r.ok
          THEN seeds' = r.value /\ seedPos' = 1 /\ mainpc' = "for"
               /\ mainErr' = mainErr
          ELSE seeds' = seeds /\ seedPos' = seedPos /\ mainpc' = "error"
               /\ mainErr' = "SyntaxError"
    /\ UNCHANGED <<seedsArg, split, mainTasks, mainIdx, mainMap, seedFiles, calls,
                   returned>>
    /\ UNCHANGED outsideMain

\* lines 216-217 and 41-67: the next seed, the call of evaluate() with it, the
\* load of the seed's result file and the tasks of the split
MCall ==
    /\ mainpc = "for"
    /\ IF seedPos > Len(seeds)
       THEN /\ mainpc' = "exit"
            /\ UNCHANGED <<mainTasks, mainIdx, mainMap, calls, mainErr>>
       ELSE LET r == LoadResult(seedFiles[seeds[seedPos]]) IN
            /\ calls' = Append(calls, seeds[seedPos])
            /\ IF r.ok
               THEN /\ mainMap' = r.value
                    /\ mainTasks' = ResolveTasks(split, tasksArg)
                    /\ mainIdx' = 1
                    /\ mainpc' = "loop"
                    /\ mainErr' = mainErr
               ELSE /\ mainpc' = "error"
                    /\ mainErr' = "JSONDecodeError"
                    /\ UNCHANGED <<mainTasks, mainIdx, mainMap>>
    /\ UNCHANGED <<seedsArg, split, seeds, seedPos, seedFiles, returned>>
    /\ UNCHANGED outsideMain

\* lines 69-78: the next task of the run, skipped when it has an entry; after the
\* last one evaluate() returns
MLoopHead ==
    /\ mainpc = "loop"
    /\ IF mainIdx > Len(mainTasks)
       THEN /\ mainpc' = "for"
            /\ seedPos' = seedPos + 1
            /\ returned' = returned + 1
            /\ mainIdx' = mainIdx
       ELSE /\ IF SkipTask(mainMap, TaskName(mainTasks[mainIdx]))
               THEN mainpc' = "loop" /\ mainIdx' = mainIdx + 1
               ELSE mainpc' = "task" /\ mainIdx' = mainIdx
            /\ UNCHANGED <<seedPos, returned>>
    /\ UNCHANGED <<seedsArg, split, seeds, mainTasks, mainMap, seedFiles, calls,
                   mainErr>>
    /\ UNCHANGED outsideMain

\* lines 80-197: the task is evaluated, its entry recorded and the file of the
\* seed rewritten; or its environment raises and the exception ends __main__
MTask ==
    /\ mainpc = "task"
    /\ \/ \E v \in ValuesOf("vec", 1) :
            LET d == RecordEntry(mainMap, TaskName(mainTasks[mainIdx]), v) IN
              /\ mainMap' = d
              /\ seedFiles' = [seedFiles EXCEPT ![seeds[seedPos]] = JsonText(d)]
              /\ mainIdx' = mainIdx + 1
              /\ mainpc' = "loop"
              /\ mainErr' = mainErr
       \/ /\ mainpc' = AfterEnvFailure
          /\ mainErr' = "EnvError"
          /\ UNCHANGED <<mainMap, seedFiles, mainIdx>>
    /\ UNCHANGED <<seedsArg, split, seeds, seedPos, mainTasks, calls, returned>>
    /\ UNCHANGED outsideMain

NextMain ==
    \/ MParse
    \/ MCall
    \/ MLoopHead
    \/ MTask

SpecMain == InitMain /\ [][NextMain]_vars


(***************************************************************************)
(* Claims about the command line (checked under SpecMain).                 *)
(***************************************************************************)

\* the task names of the split a --split value selects
SplitNames ==
    LET chosen == IF split = "train" THEN train_tasks ELSE test_tasks
    IN {chosen[i][1] : i \in 1..Len(chosen)}

PlusCount(s) == Cardinality({i \in 1..Len(s) : s[i] = "+"})

\* C20: once the seed list is parsed, it has one seed per '+'-separated piece of
\* the argument, and evaluate() is called with its seeds one after the other, in
\* list order, each once per occurrence; the tasks a call goes through are those
\* of the split, whatever the tasks argument; and when a call has returned, the
\* result file of its seed is a complete text with an entry for every task of
\* the split (and for no other task).
C20_OncePerSeedAllTasks ==
    (mainpc # "parse" /\ mainErr # "SyntaxError") =>
        /\ Len(seeds) = PlusCount(seedsArg) + 1
        /\ Len(calls) <= Len(seeds)
        /\ calls = SubSeq(seeds, 1, Len(calls))
        /\ Len(calls) = (IF mainpc \in {"for", "exit"} THEN seedPos - 1 ELSE seedPos)
        /\ mainErr = "none" => returned = seedPos - 1
        /\ mainpc = "exit" => (calls = seeds /\ returned = Len(seeds))
        /\ mainpc \in {"loop", "task"} =>
                /\ Len(mainTasks) = Cardinality(SplitNames)
                /\ {TaskName(mainTasks[i]) : i \in 1..Len(mainTasks)} = SplitNames
        /\ \A i \in 1..returned :
                /\ seedFiles[calls[i]].kind = "json"
                /\ \A name \in SplitNames : HasKey(seedFiles[calls[i]].items, name)
        /\ \A s \in SeedValues : \A e \in FileEntries(seedFiles[s]) :
                e[1] \in SplitNames

\* the seeds "1+0" with a split other than train: evaluate() ran for the seed 1,
\* then for the seed 0, and both result files have the entry of the test task
C20_Witness ==
    /\ mainpc = "exit" /\ mainErr = "none"
    /\ seedsArg = <<"1", "+", "0">>
    /\ split = "val"
    /\ calls = <<1, 0>> /\ returned = 2
    /\ HasKey(seedFiles[0].items, "close_drawer")
    /\ HasKey(seedFiles[1].items, "close_drawer")
    /\ seedFiles[10] = Absent


(***************************************************************************)
(* Claims about the steps of the vectorized rollout (SpecRollout).         *)
(***************************************************************************)

\* C21: in the rollout loop a policy call and a batched environment step
\* alternate, the policy call first: a policy call is made only when every
\* earlier one has been followed by its environment step, and is followed by
\* exactly one environment step before the next thing the loop does; each
\* policy call is given the images of all the slots and each environment step
\* steps all the slots and returns a done flag for each, the slots that finished
\* earlier included.
C21_PolicyAndStepAlternate ==
    /\ [](/\ policyCalls - envSteps \in {0, 1}
          /\ rpc = "policy" => (policyCalls = envSteps /\ policyCalls = step)
          /\ rpc = "envstep" =>
                (policyCalls = envSteps + 1 /\ policyBatch = Slots)
          /\ envSteps > 0 => (stepBatch = Slots /\ DOMAIN dones = Slots)
          /\ rpc \in {"after", "done", "saved"} => policyCalls = envSteps)
    /\ [][policyCalls' # policyCalls =>
            /\ rpc = "policy" /\ rpc' = "envstep"
            /\ policyCalls' = policyCalls + 1
            /\ envSteps' = envSteps]_vars
    /\ [][envSteps' # envSteps =>
            /\ rpc = "envstep" /\ rpc' \in {"policy", "after"}
            /\ envSteps' = envSteps + 1
            /\ policyCalls' = policyCalls]_vars

\* the third policy call of a rollout of two slots, the first of which finished
\* at the first step: it is given the images of both slots
C21_Witness ==
    /\ rpc = "envstep" /\ env_num = 2
    /\ policyCalls = 3 /\ envSteps = 2
    /\ finished_tasks[1] /\ ~finished_tasks[2]
    /\ firstDone[1] = 1
    /\ policyBatch = {1, 2} /\ stepBatch = {1, 2}


\* C25: when the rollout loop is over, every slot has 1 <= episode_length <= the
\* number of policy steps made <= 600, the number of policy steps made is the
\* largest episode_length, and one overlay frame was buffered per policy step:
\* the slice [:episode_length[k]] of the frames has episode_length[k] frames.
C25_LengthsWithinSteps ==
    rpc \in {"after", "done", "saved"} =>
        /\ policyCalls <= 600
        /\ frames = policyCalls
        /\ \A k \in Slots :
                /\ 1 <= episode_length[k]
                /\ episode_length[k] <= policyCalls
                /\ episode_length[k] <= frames
        /\ \E k \in Slots : episode_length[k] = policyCalls
        /\ (rpc = "saved" /\ save_video) =>
                \A k \in Slots : videos[k].frames = episode_length[k]

\* a rollout of three slots that ended at its 37th step, when the last slot
\* finished; the others had finished at the first and at the second step
C25_Witness ==
    /\ rpc = "saved" /\ save_video /\ env_num = 3
    /\ policyCalls = ScenarioStep /\ frames = ScenarioStep
    /\ episode_length = <<1, 2, ScenarioStep>>
    /\ videos[3].frames = ScenarioStep


(***************************************************************************)
(* Claims about the environments of a run (checked under Spec).            *)
(***************************************************************************)

\* C22: in a run that has raised no error at most one environment (pool) is open
\* at any time: none is open when the environment of a task is created, the one
\* of the task is open through its rollout, and none is open when the entry of
\* the task is recorded and written and when the loop goes to the next task;
\* the number of slots never changes.
C22_OneEnvironmentAtATime ==
    /\ [](err = "none" =>
            /\ envOpen \in {0, 1}
            /\ pc \in {"load", "loop", "mkdir", "mkenv"} => envOpen = 0
            /\ (pc = "reset" /\ mode = "vec") => envOpen = 0
            /\ (pc = "reset" /\ mode = "single") => envOpen = 1
            /\ pc \in {"rollout", "close"} => envOpen = 1
            /\ pc \in {"record", "open", "dump", "done"} => envOpen = 0
            /\ pc \in {"record", "open", "dump"} => envCreated = rollouts)
    /\ [][env_num' = env_num]_vars
    /\ [][(envCreated' > envCreated /\ err' = "none") =>
            (envOpen = 0 /\ envOpen' = 1 /\ envCreated' = envCreated + 1)]_vars

\* the environment of the second task is about to be created in a run that
\* created, closed and recorded the one of the first task
C22_Witness ==
    /\ pc = "mkenv" /\ err = "none" /\ kills = 0
    /\ idx = 2 /\ envCreated = 1 /\ rollouts = 1 /\ envOpen = 0
    /\ Len(completed) = 1
    /\ file.kind = "json"


(***************************************************************************)
(* Further claims about the single-environment episode (SpecSingle).       *)
(***************************************************************************)

\* C23 (as claimed): a run whose episode made all 600 steps without the
\* environment ever reporting done is recorded as a failure.
C23_BudgetExhaustedIsFailure ==
    (gpc \in {"run", "closed"} /\ single_run > 0
        /\ singleEnvSteps = single_max_step /\ singleDoneAt = 0) =>
            (episode_results[single_run] = FALSE /\ single_success_count = 0)


(***************************************************************************)
(* Claims about the entries of the result file (checked under Spec).       *)
(***************************************************************************)

\* a [success_rate, outcomes] pair: one boolean per run and the rate of the true
\* ones among them
IsPairEntry(v) ==
    /\ v.shape = "pair"
    /\ Len(v.outcomes) = total_runs
    /\ \A i \in 1..Len(v.outcomes) : v.outcomes[i] \in BOOLEAN
    /\ v.rate = Div(Cardinality({i \in 1..Len(v.outcomes) : v.outcomes[i]}),
                    Len(v.outcomes))

\* a single number k / n with 0 <= k <= n
IsRateEntry(v, n) ==
    /\ v.shape = "float"
    /\ \E k \in 0..n : v.rate = Div(k, n)
    /\ 0 <= v.rate[1] /\ v.rate[1] <= v.rate[2]

\* C24: every entry the single-environment evaluator holds or writes is a
\* [success_rate, outcomes] pair with one boolean outcome per run and the rate
\* of the true outcomes; every entry the vectorized evaluator holds or writes
\* is one number of 0..1, k / N for a number k of slots; so a file never has
\* entries of both shapes.
C24_EntryShapes ==
    LET held == Entries(all_tasks_success_rate) \cup FileEntries(file)
                    \cup Entries(completed)
    IN /\ mode = "single" => \A e \in held : IsPairEntry(e[2])
       /\ mode = "vec" => \A e \in held : IsRateEntry(e[2], env_num)
       /\ \A e1, e2 \in FileEntries(file) : e1[2].shape = e2[2].shape
       /\ pc \in {"close", "record"} =>
            (IF mode = "single" THEN IsPairEntry(success_rate)
             ELSE IsRateEntry(success_rate, env_num))

\* the single-environment evaluator has written the pairs of two tasks, a
\* failure and a success
C24_Witness ==
    /\ mode = "single" /\ pc = "done" /\ file.kind = "json"
    /\ Len(file.items) = 2 /\ Len(completed) = 2
    /\ file.items[1][2] = [shape |-> "pair", rate |-> <<0, 1>>, outcomes |-> <<FALSE>>]
    /\ file.items[2][2] = [shape |-> "pair", rate |-> <<1, 1>>, outcomes |-> <<TRUE>>]


(***************************************************************************)
(* SpecPaths: two LIBERO evaluations of the same evaluator with different  *)
(* arguments, the second started after the first has ended: the result     *)
(* file each computes from its arguments (lines 41-48 / 38-45), and the    *)
(* skip-if-present gate of the second. A path is the sequence of its       *)
(* components; a model path is the sequence model_path.split('/').         *)
(***************************************************************************)
\* 'hf://rail-berkeley/octo-base-1.5'.split('/')
HfPath == <<"hf:", "", "rail-berkeley", "octo-base-1.5">>

\* the model paths, checkpoint steps, seeds and splits of the evaluations
ModelPaths == {HfPath, <<"finetune_saves", "run1">>, <<"old_saves", "run1">>,
               <<"finetune_saves", "run2">>}
CheckpointSteps == {"None", "1000"}
PathSeeds == {"0", "1"}
PathSplits == {"train", "test"}

EvalArgs == [model_path : ModelPaths, checkpoint_step : CheckpointSteps,
             seed : PathSeeds, split : PathSplits]

\* model_path.split('/')[1:], joined again with '/': the components but the first
DropFirst(path) == SubSeq(path, 2, Len(path))

\* lines 41-45 (38-42): eval_path
EvalPath(a) ==
    IF a.model_path = HfPath
    THEN <<"eval_results", "libero", "octo-base", a.seed>>
    ELSE <<"eval_results", "libero">> \o DropFirst(a.model_path)
            \o <<<<"eval_step_", a.checkpoint_step>>, a.seed>>

\* line 48 of the vectorized evaluator: f'success_rate_{split}'; line 45 of the
\* single one: f'success_rate'
SaveFileName(m, a) ==
    IF m = "vec" THEN <<"success_rate_", a.split>> ELSE <<"success_rate">>

\* f'{eval_path}/{save_file_name}.json'
ResultFile(m, a) == Append(EvalPath(a), <<SaveFileName(m, a), ".json">>)

\* the task names evaluate() goes through for a split
NamesOfSplit(sp) ==
    LET ids == ResolveTasks(sp, tasksArg)
    IN [i \in 1..Len(ids) |-> TaskName(ids[i])]

outsidePaths == <<ledgerVars, rolloutVars, simplerVars, simplerEvalVars, singleVars,
                 artifactVars, concVars, mainVars, cliVars>>

InitPaths ==
    /\ idleLedger
    /\ env_num = 1
    /\ success_rate = VecValue(0, 1)
    /\ idleRollout
    /\ idleSimpler
    /\ idleSimplerEval
    /\ idleSingle
    /\ idleArtifacts
    /\ idleConc
    /\ idleMain
    /\ idleCli
    /\ ppc = "A"
    /\ pMode \in {"vec", "single"}
    /\ argsA \in EvalArgs
    /\ argsB \in EvalArgs
    /\ argsA # argsB
    /\ pathA = <<>> /\ pathB = <<>> /\ stored = <<>> /\ mapB = <<>> /\ idxB = 0
    /\ skippedB = {} /\ evaluatedB = {}

\* the first evaluation, from an empty directory: its file gets an entry for
\* every task of its split, each with the value of that task's own rollout
PEvaluateA ==
    /\ ppc = "A"
    /\ pathA' = ResultFile(pMode, argsA)
    /\ LET names == NamesOfSplit(argsA.split) IN
          \E vs \in [1..Len(names) -> ValuesOf(pMode, 1)] :
              stored' = [i \in 1..Len(names) |-> <<names[i], vs[i]>>]
    /\ ppc' = "B"
    /\ UNCHANGED <<pMode, argsA, argsB, pathB, mapB, idxB, skippedB, evaluatedB>>
    /\ UNCHANGED outsidePaths

\* lines 41-53 (38-50) of the second evaluation: its file, loaded when it exists
PLoadB ==
    /\ ppc = "B"
    /\ pathB' = ResultFile(pMode, argsB)
    /\ mapB' = IF ResultFile(pMode, argsB) = pathA THEN stored ELSE <<>>
    /\ idxB' = 1
    /\ ppc' = "loopB"
    /\ UNCHANGED <<pMode, argsA, argsB, pathA, stored, skippedB, evaluatedB>>
    /\ UNCHANGED outsidePaths

\* lines 69-78 and 80-197 (66-75, 77-129) of the second evaluation: a task is
\* skipped when the mapping has it, evaluated and recorded otherwise
PTaskB ==
    /\ ppc = "loopB"
    /\ LET names == NamesOfSplit(argsB.split) IN
          IF idxB > Len(names)
          THEN /\ ppc' = "done"
               /\ UNCHANGED <<mapB, idxB, skippedB, evaluatedB>>
          ELSE /\ ppc' = "loopB"
               /\ idxB' = idxB + 1
               /\ IF SkipTask(mapB, names[idxB])
                  THEN /\ skippedB' = skippedB \cup {names[idxB]}
                       /\ UNCHANGED <<mapB, evaluatedB>>
                  ELSE /\ \E v \in ValuesOf(pMode, 1) :
                            mapB' = RecordEntry(mapB, names[idxB], v)
                       /\ evaluatedB' = evaluatedB \cup {names[idxB]}
                       /\ UNCHANGED skippedB
    /\ UNCHANGED <<pMode, argsA, argsB, pathA, pathB, stored>>
    /\ UNCHANGED outsidePaths

NextPaths ==
    \/ PEvaluateA
    \/ PLoadB
    \/ PTaskB

SpecPaths == InitPaths /\ [][NextPaths]_vars

(***************************************************************************)
(* Claims about the result file of an evaluation (SpecPaths).              *)
(***************************************************************************)

\* C26 (as claimed): two evaluations whose model path, checkpoint step, seed or
\* split differ have different result files, and the second skips no task.
C26_DistinctArgsDistinctFiles ==
    ppc \in {"loopB", "done"} => (pathA # pathB /\ skippedB = {})

(***************************************************************************)
(* SpecCli: one command line of each of the three evaluate.py, from        *)
(* parse_args to the environments evaluate() creates: the --model argument *)
(* goes through argparse's choices, then through load_model.               *)
(***************************************************************************)
\* the number of seeds of a LIBERO command line
MaxCliSeeds == 2

\* "simpler": scripts/evaluate.py, "vec": octo/domains/LIBERO/evaluate.py,
\* "single": domains/LIBERO/evaluate.py
CliScripts == {"simpler", "vec", "single"}

\* choices=[...] of the --model argument, the same list in the three files
ModelChoices == {"octo-small", "octo-base", "octo-custom", "rt_1_x", "rt_1_400k"}

\* what a user may type after --model: a choice, or another name
ModelArgs == ModelChoices \cup {"other-model", "octo-tiny", "rt_1"}

\* what a user may type after --model_path
CliModelPaths == {"hf://rail-berkeley/octo-base-1.5", "finetune_saves/hypernet/run1"}

\* (mutant) --model is declared without choices
AcceptsModel_Any(name) == TRUE

\* argparse accepts the value of --model when it is one of the choices; otherwise
\* parse_args prints the usage and exits with status 2
AcceptsModel(name) == name \in ModelChoices

\* `if 'hypernet' in model_path or 'vanilla_lora' in model_path`: the OctoModel
\* class load_model imports
ModelClass(path) ==
    IF HasSubstring(path, "hypernet") \/ HasSubstring(path, "vanilla_lora")
    THEN "octo.model_lora" ELSE "octo.model"

\* load_model of the LIBERO evaluators (lines 29-36 / 25-33): model_name is a
\* parameter the body never reads; the model is the one of model_path
libero_load_model(name, path) == "ok"

\* OctoModel.load_pretrained(model_path, step=step) returns the model or raises
\* (the checkpoint is missing or cannot be read)
LoadPretrained == {"ok", "LoadError"}

\* the outcomes of the load_model evaluate() calls in each file: the exception
\* load_model raises for the name, or what load_pretrained does
LoadOutcomes(script, name, path) ==
    LET r == IF script = "simpler" THEN load_model(name)
                                   ELSE libero_load_model(name, path)
    IN IF r = "ok" THEN LoadPretrained ELSE {r}

\* scripts/evaluate.py calls evaluate() once, the LIBERO files once per seed
CliCalls(script) == IF script = "simpler" THEN {1} ELSE 1..MaxCliSeeds

\* the number of tasks evaluate() goes through
CliNumTasks(script) == IF script = "simpler" THEN SimplerNumTasks ELSE NumTasks

outsideCli == <<ledgerVars, rolloutVars, simplerVars, simplerEvalVars, singleVars,
                artifactVars, concVars, mainVars, pathVars>>

InitCli ==
    /\ idleLedger
    /\ env_num = 1
    /\ success_rate = VecValue(0, 1)
    /\ idleRollout
    /\ idleSimpler
    /\ idleSimplerEval
    /\ idleSingle
    /\ idleArtifacts
    /\ idleConc
    /\ idleMain
    /\ idlePaths
    /\ clipc = "start"
    /\ cliScript \in CliScripts
    /\ cliModel \in ModelArgs
    /\ cliPath \in CliModelPaths
    /\ cliSeeds \in CliCalls(cliScript)
    /\ cliCall = 0 /\ cliErr = "none"
    /\ cliModelLoads = 0 /\ cliClass = "none" /\ cliEnvsMade = 0
    /\ cliTask = 0 /\ cliPrevSetup = ""

\* parser.parse_args() (line 175 / 212 / 200)
CliParse ==
    /\ clipc = "start"
    /\ IF AcceptsModel(cliModel)
       THEN clipc' = "main" /\ cliErr' = cliErr
       ELSE clipc' = "exit" /\ cliErr' = "SystemExit"
    /\ UNCHANGED <<cliScript, cliModel, cliPath, cliSeeds, cliCall, cliModelLoads,
                   cliClass, cliEnvsMade, cliTask, cliPrevSetup>>
    /\ UNCHANGED outsideCli

\* line 177 / 216-217 / 204-205: evaluate(args.model, args.model_path, ...) is
\* called (for the next seed), or __main__ ends. scripts/evaluate.py goes to its
\* task loop with previous_policy_setup = '' (lines 71-80); the LIBERO files
\* load the model before their task loop (line 59 / 56).
CliCall ==
    /\ clipc = "main"
    /\ IF cliCall < cliSeeds
       THEN /\ cliCall' = cliCall + 1
            /\ cliTask' = 1
            /\ cliPrevSetup' = ""
            /\ clipc' = IF cliScript = "simpler" THEN "task" ELSE "load"
       ELSE /\ clipc' = "done"
            /\ UNCHANGED <<cliCall, cliTask, cliPrevSetup>>
    /\ UNCHANGED <<cliScript, cliModel, cliPath, cliSeeds, cliErr, cliModelLoads,
                   cliClass, cliEnvsMade>>
    /\ UNCHANGED outsideCli

\* the head of the task loop. scripts/evaluate.py, lines 80-90: the model is
\* loaded when the policy setup of the task differs from the previous one, so
\* for the first task and again after environments were made. LIBERO, lines
\* 69-78 (66-75): a task whose name is in the result file is skipped.
CliTaskHead ==
    /\ clipc = "task"
    /\ cliTask <= CliNumTasks(cliScript)
    /\ IF cliScript = "simpler"
       THEN /\ clipc' = IF PolicySetup(cliTask) # cliPrevSetup THEN "load" ELSE "env"
            /\ cliTask' = cliTask
       ELSE \/ clipc' = "env" /\ cliTask' = cliTask
            \/ clipc' = "task" /\ cliTask' = cliTask + 1
    /\ UNCHANGED <<cliScript, cliModel, cliPath, cliSeeds, cliCall, cliErr,
                   cliModelLoads, cliClass, cliEnvsMade, cliPrevSetup>>
    /\ UNCHANGED outsideCli

\* line 89 / 59 / 56: model = load_model(...); an exception of load_model ends
\* the process. In scripts/evaluate.py the environment of the task follows, in
\* the LIBERO files the task loop.
CliLoadModel ==
    /\ clipc = "load"
    /\ \E r \in LoadOutcomes(cliScript, cliModel, cliPath) :
        IF r = "ok"
        THEN /\ clipc' = IF cliScript = "simpler" THEN "env" ELSE "task"
             /\ cliModelLoads' = cliModelLoads + 1
             /\ cliClass' = ModelClass(cliPath)
             /\ cliErr' = cliErr
        ELSE /\ clipc' = "exit"
             /\ cliErr' = r
             /\ UNCHANGED <<cliModelLoads, cliClass>>
    /\ UNCHANGED <<cliScript, cliModel, cliPath, cliSeeds, cliCall, cliEnvsMade,
                   cliTask, cliPrevSetup>>
    /\ UNCHANGED outsideCli

\* lines 90-153 / 143-197 / 86-129: previous_policy_setup = policy_setup, the
\* environment (pool) of the task is created and the task is evaluated
CliMakeEnv ==
    /\ clipc = "env"
    /\ cliEnvsMade' = cliEnvsMade + 1
    /\ cliPrevSetup' = IF cliScript = "simpler" THEN PolicySetup(cliTask)
                                                ELSE cliPrevSetup
    /\ cliTask' = cliTask + 1
    /\ clipc' = "task"
    /\ UNCHANGED <<cliScript, cliModel, cliPath, cliSeeds, cliCall, cliErr,
                   cliModelLoads, cliClass>>
    /\ UNCHANGED outsideCli

\* the task loop is over and evaluate() returns
CliReturn ==
    /\ clipc = "task"
    /\ cliTask > CliNumTasks(cliScript)
    /\ clipc' = "main"
    /\ UNCHANGED <<cliScript, cliModel, cliPath, cliSeeds, cliCall, cliErr,
                   cliModelLoads, cliClass, cliEnvsMade, cliTask, cliPrevSetup>>
    /\ UNCHANGED outsideCli

NextCli ==
    \/ CliParse
    \/ CliCall
    \/ CliTaskHead
    \/ CliLoadModel
    \/ CliMakeEnv
    \/ CliReturn

SpecCli == InitCli /\ [][NextCli]_vars

\* C18: a command line whose --model is none of the names the program knows ends
\* with the error of parse_args before evaluate() is called: no model is loaded
\* and no environment is created, in any of the three evaluators.
C18_UnknownModelFailsFast ==
    cliModel \notin ModelChoices =>
        /\ clipc \in {"start", "exit"}
        /\ clipc = "exit" => cliErr = "SystemExit"
        /\ cliCall = 0 /\ cliModelLoads = 0 /\ cliClass = "none"
        /\ cliEnvsMade = 0 /\ cliTask = 0

\* the vectorized LIBERO evaluator has exited on a --model it does not know
C18_Witness ==
    /\ clipc = "exit" /\ cliErr = "SystemExit"
    /\ cliScript = "vec" /\ cliModel = "other-model"
    /\ cliEnvsMade = 0 /\ cliModelLoads = 0

====
